---- MODULE Spec2Model ----
(***************************************************************************)
(* Model of the etl-pipeline service (mhassan-k/etl-pipeline).             *)
(*                                                                         *)
(* main (src/main.go) connects to PostgreSQL, starts the HTTP server and   *)
(* the ETL goroutine, waits for SIGINT/SIGTERM, cancels the context,       *)
(* shuts the HTTP server down and returns.  ETLService.Start               *)
(* (src/internal/etl/service.go) runs runPipeline once and then on every   *)
(* tick of a time.Ticker until ctx.Done() is selected.  runPipeline is a   *)
(* sequence of six blocking stages; each stage is one action here, so      *)
(* that time, the termination signal and process exit interleave with a    *)
(* cycle the way they do in the program.                                   *)
(***************************************************************************)
EXTENDS Integers, Sequences, FiniteSets, TLC

\* Bounds of the model.
\* Number of environment events in a run: ticker intervals that elapse plus
\* operations (HTTP, database, file) that fail.
MaxEvents == 3
\* Length of the array the upstream API returns.
MaxBatch == 2
\* Length of the batches of several records handed to the transformer on
\* its own.
MaxLen == 3

(***************************************************************************)
(* JSON values as json.Unmarshal yields them in a map[string]interface{}.  *)
(* A number is a float64: sign, whole part and a half-unit fraction flag,  *)
(* i.e. (neg ? -1 : 1) * (w + h/2).  A string is a sequence of characters. *)
(* JBigNum is a float64 whose magnitude is 2^63 or more (1e19, say): its   *)
(* whole part fits no Go int.                                              *)
(***************************************************************************)
JAbsent == [t |-> "absent", neg |-> FALSE, w |-> 0, h |-> 0, s |-> <<>>]
JNull == [t |-> "null", neg |-> FALSE, w |-> 0, h |-> 0, s |-> <<>>]
JBool == [t |-> "bool", neg |-> FALSE, w |-> 0, h |-> 0, s |-> <<>>]
JNum(neg, w, h) == [t |-> "num", neg |-> neg, w |-> w, h |-> h, s |-> <<>>]
JStr(s) == [t |-> "str", neg |-> FALSE, w |-> 0, h |-> 0, s |-> s]
JBigNum(neg) == [t |-> "bignum", neg |-> neg, w |-> 0, h |-> 0, s |-> <<>>]

\* v, ok := x.(float64): ok
IsFloat64(v) == v.t \in {"num", "bignum"}

\* The keys of a raw record that the program reads, in json.Marshal's
\* (sorted) key order.
Keys == <<"body", "title", "userId">>

\* Raw records served by the upstream API in this model: one that the
\* transformer accepts (fractional userId, title to trim, no body) and one
\* that it rejects (no userId).
RecGood ==
    [userId |-> JNum(FALSE, 1, 1), title |-> JStr(<<" ", "A", " ">>), body |-> JAbsent]
RecNoUser ==
    [userId |-> JAbsent, title |-> JStr(<<"A">>), body |-> JStr(<<"B">>)]
SampleRecords == {RecGood, RecNoUser}

RECURSIVE SeqsUpTo(_, _)
SeqsUpTo(S, n) ==
    IF n = 0 THEN {<<>>}
    ELSE LET shorter == SeqsUpTo(S, n - 1)
         IN  shorter \cup {Append(q, x) : q \in {p \in shorter : Len(p) = n - 1}, x \in S}

(***************************************************************************)
(* internal/transform/transformer.go                                       *)
(***************************************************************************)
IsSpace(c) == c \in {" ", "\t", "\n"}

RECURSIVE TrimLeft(_)
TrimLeft(s) ==
    IF s = <<>> THEN s
    ELSE IF IsSpace(Head(s)) THEN TrimLeft(Tail(s)) ELSE s

RECURSIVE TrimRight(_)
TrimRight(s) ==
    IF s = <<>> THEN s
    ELSE IF IsSpace(s[Len(s)]) THEN TrimRight(SubSeq(s, 1, Len(s) - 1)) ELSE s

\* strings.TrimSpace
TrimSpace(s) == TrimRight(TrimLeft(s))

\* The least and the greatest int.  TLC's integers are 32 bits wide, and so
\* is the int of the model (as on GOARCH=386); on a 64-bit build the two
\* values are -2^63 and 2^63 - 1.
MaxInt == (2^30 - 1) + 2^30
MinInt == (0 - MaxInt) - 1

\* What a build does when it converts a float64 that no int can represent:
\* the Go specification leaves the value implementation-dependent.  amd64
\* yields the least int whatever the sign ("indefinite"), arm64 the int
\* nearest to the value ("saturate").
Conversions == {"indefinite", "saturate"}

\* A variant of IntOfFloat that rounds to the nearest int, a half away from
\* zero.
IntOfFloatRounds(v, conv) ==
    IF v.t = "bignum"
    THEN IF conv = "saturate" /\ ~v.neg THEN MaxInt ELSE MinInt
    ELSE IF v.neg THEN 0 - (v.w + v.h) ELSE v.w + v.h

\* int(userID): conversion of a float64 to int truncates toward zero.
IntOfFloat(v, conv) ==
    IF v.t = "bignum"
    THEN IF conv = "saturate" /\ ~v.neg THEN MaxInt ELSE MinInt
    ELSE IF v.neg THEN 0 - v.w ELSE v.w

\* database.ProcessedRecord{} (the zero value returned beside an error).
ZeroProcessedRecord == [UserID |-> 0, Title |-> <<>>, Body |-> <<>>]

ErrUserId == "invalid or missing userId"
ErrTitle == "title cannot be empty"
Nil == "nil"

\* A variant of transformRecord that validates the title before the userId.
transformRecordTitleFirst(record, conv) ==
    LET okId == IsFloat64(record.userId)
        title == TrimSpace(IF record.title.t = "str" THEN record.title.s ELSE <<>>)
        body == TrimSpace(IF record.body.t = "str" THEN record.body.s ELSE <<>>)
    IN  IF title = <<>> THEN [rec |-> ZeroProcessedRecord, err |-> ErrTitle]
        ELSE IF ~okId THEN [rec |-> ZeroProcessedRecord, err |-> ErrUserId]
        ELSE [rec |-> [UserID |-> IntOfFloat(record.userId, conv), Title |-> title, Body |-> body],
              err |-> Nil]

\* A variant of transformRecord that checks the title for emptiness before
\* it trims it.
transformRecordChecksUntrimmed(record, conv) ==
    LET okId == IsFloat64(record.userId)
        title == IF record.title.t = "str" THEN record.title.s ELSE <<>>
        body == TrimSpace(IF record.body.t = "str" THEN record.body.s ELSE <<>>)
    IN  IF ~okId THEN [rec |-> ZeroProcessedRecord, err |-> ErrUserId]
        ELSE IF title = <<>> THEN [rec |-> ZeroProcessedRecord, err |-> ErrTitle]
        ELSE [rec |-> [UserID |-> IntOfFloat(record.userId, conv), Title |-> TrimSpace(title),
                       Body |-> body],
              err |-> Nil]

\* A variant of transformRecord that accepts a record whose title is empty
\* after trimming.
transformRecordKeepsEmptyTitle(record, conv) ==
    LET okId == IsFloat64(record.userId)
        title == TrimSpace(IF record.title.t = "str" THEN record.title.s ELSE <<>>)
        body == TrimSpace(IF record.body.t = "str" THEN record.body.s ELSE <<>>)
    IN  IF ~okId THEN [rec |-> ZeroProcessedRecord, err |-> ErrUserId]
        ELSE [rec |-> [UserID |-> IntOfFloat(record.userId, conv), Title |-> title, Body |-> body],
              err |-> Nil]

\* Transformer.transformRecord: (ProcessedRecord, error)
transformRecord(record, conv) ==
    LET okId == IsFloat64(record.userId)
        title == TrimSpace(IF record.title.t = "str" THEN record.title.s ELSE <<>>)
        body == TrimSpace(IF record.body.t = "str" THEN record.body.s ELSE <<>>)
    IN  IF ~okId THEN [rec |-> ZeroProcessedRecord, err |-> ErrUserId]
        ELSE IF title = <<>> THEN [rec |-> ZeroProcessedRecord, err |-> ErrTitle]
        ELSE [rec |-> [UserID |-> IntOfFloat(record.userId, conv), Title |-> title, Body |-> body],
              err |-> Nil]

\* A variant of TransformLoop that counts the batch as one error however
\* many of its records are rejected.
RECURSIVE TransformLoopCountsOnce(_, _, _, _, _)
TransformLoopCountsOnce(rawData, i, processedRecords, errorCount, conv) ==
    IF i > Len(rawData) THEN [Records |-> processedRecords, errorCount |-> errorCount]
    ELSE LET r == transformRecord(rawData[i], conv)
         IN  IF r.err # Nil
             THEN TransformLoopCountsOnce(rawData, i + 1, processedRecords, 1, conv)
             ELSE TransformLoopCountsOnce(rawData, i + 1, Append(processedRecords, r.rec),
                                          errorCount, conv)

\* A variant of TransformLoop that puts each accepted record in front of the
\* ones accepted before it.
RECURSIVE TransformLoopPrepends(_, _, _, _, _)
TransformLoopPrepends(rawData, i, processedRecords, errorCount, conv) ==
    IF i > Len(rawData) THEN [Records |-> processedRecords, errorCount |-> errorCount]
    ELSE LET r == transformRecord(rawData[i], conv)
         IN  IF r.err # Nil
             THEN TransformLoopPrepends(rawData, i + 1, processedRecords, errorCount + 1, conv)
             ELSE TransformLoopPrepends(rawData, i + 1, <<r.rec>> \o processedRecords,
                                        errorCount, conv)

\* The loop of Transformer.Transform over rawData[i..]: the accepted records
\* in input order and the number of rejected ones.
RECURSIVE TransformLoop(_, _, _, _, _)
TransformLoop(rawData, i, processedRecords, errorCount, conv) ==
    IF i > Len(rawData) THEN [Records |-> processedRecords, errorCount |-> errorCount]
    ELSE LET r == transformRecord(rawData[i], conv)
         IN  IF r.err # Nil
             THEN TransformLoop(rawData, i + 1, processedRecords, errorCount + 1, conv)
             ELSE TransformLoop(rawData, i + 1, Append(processedRecords, r.rec), errorCount,
                                conv)

\* A variant of Transform that reports an error when every record of a
\* non-empty batch was rejected.
TransformFailsWhenAllRejected(rawData, now, conv) ==
    LET l == TransformLoop(rawData, 1, <<>>, 0, conv)
    IN  [data |-> [Records |-> l.Records, ProcessedAt |-> now,
                   TotalRecords |-> Len(l.Records)],
         errorCount |-> l.errorCount,
         err |-> IF rawData # <<>> /\ l.Records = <<>> THEN "no records" ELSE Nil]

\* Transformer.Transform: (*TransformedData, error); errorCount is what it
\* adds to TransformationErrorTotal, Len(Records) to RecordsProcessedTotal.
Transform(rawData, now, conv) ==
    LET l == TransformLoop(rawData, 1, <<>>, 0, conv)
    IN  [data |-> [Records |-> l.Records, ProcessedAt |-> now,
                   TotalRecords |-> Len(l.Records)],
         errorCount |-> l.errorCount,
         err |-> Nil]

(***************************************************************************)
(* internal/metrics: the Prometheus counters; APIRequestDuration is the    *)
(* number of observations of the histogram.                                *)
(***************************************************************************)
NewMetrics ==
    [APIRequestsTotal |-> 0, APIRequestsFailedTotal |-> 0, APIRequestDuration |-> 0,
     RecordsProcessedTotal |-> 0, TransformationErrorTotal |-> 0, DataSavedTotal |-> 0,
     DatabaseWritesTotal |-> 0, DatabaseWriteErrorsTotal |-> 0]

\* The seven counters; APIRequestDuration is a histogram, modelled by its
\* number of observations.
Counters ==
    {"APIRequestsTotal", "APIRequestsFailedTotal", "RecordsProcessedTotal",
     "TransformationErrorTotal", "DataSavedTotal", "DatabaseWritesTotal",
     "DatabaseWriteErrorsTotal"}

\* The names NewMetrics registers, in the order of its promauto calls.
MetricNames ==
    <<"etl_api_requests_total", "etl_api_requests_failed_total",
      "etl_api_request_duration_seconds", "etl_records_processed_total",
      "etl_transformation_errors_total", "etl_data_saved_total",
      "etl_database_writes_total", "etl_database_write_errors_total">>

\* promauto.NewCounter, NewHistogram: MustRegister with the default
\* registry panics when a collector of that name is registered already.
RECURSIVE RegisterAll(_, _)
RegisterAll(reg, names) ==
    IF names = <<>> THEN [registry |-> reg, panic |-> FALSE]
    ELSE IF Head(names) \in reg THEN [registry |-> reg, panic |-> TRUE]
    ELSE RegisterAll(reg \cup {Head(names)}, Tail(names))

Inc(m, counter) == [m EXCEPT ![counter] = @ + 1]
Add(m, counter, n) == [m EXCEPT ![counter] = @ + n]

(***************************************************************************)
(* internal/api: Client.FetchData.  resp is what the HTTP exchange does:   *)
(* kind "network" (Get fails), "status" (non-200), "read" (body cannot be  *)
(* read), "decode" (body is not a JSON array of objects) or "ok" with the  *)
(* decoded array.                                                          *)
(***************************************************************************)
FetchKinds == {"ok", "network", "status", "read", "decode"}

\* A variant of FetchData that clears the failure counter on a success.
FetchDataResetsFailures(m, resp) ==
    LET m1 == Inc(m, "APIRequestsTotal")
        m2 == Inc(m1, "APIRequestDuration")
    IN  IF resp.kind = "network"
        THEN [metrics |-> Inc(m1, "APIRequestsFailedTotal"), data |-> <<>>, err |-> resp.kind]
        ELSE IF resp.kind # "ok"
        THEN [metrics |-> Inc(m2, "APIRequestsFailedTotal"), data |-> <<>>, err |-> resp.kind]
        ELSE [metrics |-> [m2 EXCEPT !.APIRequestsFailedTotal = 0], data |-> resp.data, err |-> Nil]

FetchData(m, resp) ==
    LET m1 == Inc(m, "APIRequestsTotal")
        m2 == Inc(m1, "APIRequestDuration")
    IN  IF resp.kind = "network"
        THEN [metrics |-> Inc(m1, "APIRequestsFailedTotal"), data |-> <<>>, err |-> resp.kind]
        ELSE IF resp.kind # "ok"
        THEN [metrics |-> Inc(m2, "APIRequestsFailedTotal"), data |-> <<>>, err |-> resp.kind]
        ELSE [metrics |-> m2, data |-> resp.data, err |-> Nil]

(***************************************************************************)
(* internal/database: one transaction per call.  fail names the database   *)
(* operation that returns an error: Begin, Prepare, the k-th Exec, Commit, *)
(* or none.  Rows written inside a transaction become visible only by      *)
(* Commit; the deferred tx.Rollback() discards them on every error return. *)
(* A failed Commit leaves the transaction uncommitted (database/sql).       *)
(* json.Marshal cannot fail on a map that json.Unmarshal produced, so the  *)
(* marshal error return of InsertRawData has no failure point here.        *)
(***************************************************************************)
NoFail == [at |-> "none", k |-> 0]

FailPoints(n) ==
    {[at |-> a, k |-> 0] : a \in {"none", "begin", "prepare", "commit"}}
        \cup {[at |-> "exec", k |-> i] : i \in 1..n}

\* A variant of MarshalRecord that writes a key the record does not have as
\* null instead of leaving it out.
MarshalRecordNullForAbsent(record) ==
    [i \in 1..Len(Keys) |->
        <<Keys[i], IF record[Keys[i]].t = "absent" THEN JNull ELSE record[Keys[i]]>>]

\* json.Marshal of one raw record: the present keys in sorted order.
MarshalRecord(record) ==
    LET present == SelectSeq(Keys, LAMBDA key : record[key].t # "absent")
    IN  [i \in 1..Len(present) |-> <<present[i], record[present[i]]>>]

MarshalAll(data) == [i \in 1..Len(data) |-> MarshalRecord(data[i])]

\* json.Unmarshal of one stored JSON object into a map: the value of each
\* key the object has; a key it does not have is absent from the map.
UnmarshalRecord(object) ==
    [key \in {Keys[i] : i \in 1..Len(Keys)} |->
        IF \E j \in 1..Len(object) : object[j][1] = key
        THEN object[CHOOSE j \in 1..Len(object) : object[j][1] = key][2]
        ELSE JAbsent]

\* The rows the statement has executed inside the transaction when the call
\* returns.
TxRows(rows, fail) ==
    IF fail.at \in {"begin", "prepare"} THEN <<>>
    ELSE IF fail.at = "exec" THEN SubSeq(rows, 1, fail.k - 1)
    ELSE rows

\* A variant of InsertRawData that executes the statement outside any
\* transaction, so every row written before the failure stays.
InsertRawDataAutocommit(table, data, fail) ==
    [table |-> table \o TxRows(MarshalAll(data), fail),
     err |-> IF fail.at = "none" THEN Nil ELSE fail.at]

\* PostgresDB.InsertRawData
InsertRawData(table, data, fail) ==
    IF fail.at = "none"
    THEN [table |-> table \o TxRows(MarshalAll(data), fail), err |-> Nil]
    ELSE [table |-> table, err |-> fail.at]

\* A variant of InsertProcessedData that refuses an empty batch before it
\* begins a transaction.
InsertProcessedDataRejectsEmpty(table, records, fail) ==
    IF records = <<>> THEN [table |-> table, err |-> "empty batch"]
    ELSE IF fail.at = "none"
    THEN [table |-> table \o TxRows(records, fail), err |-> Nil]
    ELSE [table |-> table, err |-> fail.at]

\* PostgresDB.InsertProcessedData
InsertProcessedData(table, records, fail) ==
    IF fail.at = "none"
    THEN [table |-> table \o TxRows(records, fail), err |-> Nil]
    ELSE [table |-> table, err |-> fail.at]

(***************************************************************************)
(* internal/storage: FileStorage.  A directory is a function from file     *)
(* name (the second-resolution UTC timestamp) to the chunks written to the *)
(* file, in order; the file is opened with O_CREATE|O_WRONLY|O_APPEND.     *)
(* The clock of the model advances by one ticker interval, and the         *)
(* timestamp of a file name is that clock: an interval is one second       *)
(* (FETCH_INTERVAL=1), the resolution of the name's time format.           *)
(***************************************************************************)
FileFails == {"none", "mkdir", "open", "write"}

AppendFile(dir, name, chunk) ==
    IF name \in DOMAIN dir THEN [dir EXCEPT ![name] = Append(@, chunk)]
    ELSE (name :> <<chunk>>) @@ dir

\* The body of both Save functions after json.MarshalIndent: MkdirAll,
\* OpenFile, Write.  A failed Write leaves an incomplete chunk.
SaveFile(dir, name, text, fail) ==
    IF fail \in {"mkdir", "open"} THEN [dir |-> dir, err |-> fail]
    ELSE IF fail = "write"
    THEN [dir |-> AppendFile(dir, name, [text |-> text, complete |-> FALSE]), err |-> fail]
    ELSE [dir |-> AppendFile(dir, name, [text |-> text, complete |-> TRUE]), err |-> Nil]

\* FileStorage.SaveRawData
SaveRawData(dir, data, now, fail) == SaveFile(dir, now, MarshalAll(data), fail)

\* json.MarshalIndent of a TransformedData: a nil Records slice is null.
MarshalTransformed(data) ==
    [records |-> [null |-> data.Records = <<>>,
                  items |-> [i \in 1..Len(data.Records) |->
                                [user_id |-> data.Records[i].UserID,
                                 title |-> data.Records[i].Title,
                                 body |-> data.Records[i].Body]]],
     processed_at |-> data.ProcessedAt,
     total_records |-> data.TotalRecords]

\* FileStorage.SaveProcessedData
SaveProcessedData(dir, data, now, fail) == SaveFile(dir, now, MarshalTransformed(data), fail)

(***************************************************************************)
(* 64-bit integers.  int and time.Duration are 64 bits wide on the         *)
(* platforms the image is built for; a word is its eight bytes, least      *)
(* significant first, in two's complement, and arithmetic wraps.           *)
(***************************************************************************)
Zero64 == [i \in 1..8 |-> 0]

\* The word of a natural number below 2^31.
Word(n) ==
    [i \in 1..8 |-> IF i = 1 THEN n % 256
                    ELSE IF i = 2 THEN (n \div 256) % 256
                    ELSE IF i = 3 THEN (n \div 65536) % 256
                    ELSE IF i = 4 THEN (n \div 16777216) % 256
                    ELSE 0]

\* w * k + d for a byte-sized k: the product's low eight bytes and the
\* carry out of them.
RECURSIVE MulAdd(_, _, _, _)
MulAdd(w, k, carry, i) ==
    IF i > 8 THEN [word |-> <<>>, carry |-> carry]
    ELSE LET v == w[i] * k + carry
             rest == MulAdd(w, k, v \div 256, i + 1)
         IN  [word |-> <<v % 256>> \o rest.word, carry |-> rest.carry]

RECURSIVE AddLimbs(_, _, _, _)
AddLimbs(a, b, carry, i) ==
    IF i > 8 THEN <<>>
    ELSE LET v == a[i] + b[i] + carry
         IN  <<v % 256>> \o AddLimbs(a, b, v \div 256, i + 1)

Add64(a, b) == AddLimbs(a, b, 0, 1)

\* w shifted left by j bytes, the bytes shifted out dropped.
ShiftBytes(w, j) == [i \in 1..8 |-> IF i <= j THEN 0 ELSE w[i - j]]

RECURSIVE MulLimbs(_, _, _)
MulLimbs(a, b, j) ==
    IF j > 8 THEN Zero64
    ELSE Add64(ShiftBytes(MulAdd(a, b[j], 0, 1).word, j - 1), MulLimbs(a, b, j + 1))

\* a * b, wrapped to 64 bits.
Mul64(a, b) == MulLimbs(a, b, 1)

Neg64(w) == Add64([i \in 1..8 |-> 255 - w[i]], Word(1))

IsNegative64(w) == w[8] >= 128

Positive64(w) == ~IsNegative64(w) /\ w # Zero64

(***************************************************************************)
(* internal/config: LoadConfig, and strconv.Atoi as LoadConfig uses it.    *)
(* A string is a sequence of characters.                                   *)
(***************************************************************************)
Digits == <<"0", "1", "2", "3", "4", "5", "6", "7", "8", "9">>

IsDigit(c) == \E d \in 1..10 : Digits[d] = c

DigitValue(c) == (CHOOSE d \in 1..10 : Digits[d] = c) - 1

\* strconv.ParseUint, base 10: the magnitude of a string of digits, with
\* overflow once it no longer fits 64 bits.  The empty string and a string
\* with another character are syntax errors.
RECURSIVE ParseDigits(_, _, _)
ParseDigits(s, acc, overflow) ==
    IF s = <<>> THEN [value |-> acc, overflow |-> overflow, syntax |-> FALSE]
    ELSE IF ~IsDigit(Head(s)) THEN [value |-> acc, overflow |-> overflow, syntax |-> TRUE]
    ELSE LET r == MulAdd(acc, 10, DigitValue(Head(s)), 1)
         IN  IF r.carry # 0 THEN ParseDigits(Tail(s), r.word, TRUE)
             ELSE ParseDigits(Tail(s), r.word, overflow)

\* strconv.Atoi: an optional sign and decimal digits, nothing else; a value
\* outside int is a range error.
Atoi(s) ==
    LET neg == s # <<>> /\ Head(s) = "-"
        signed == s # <<>> /\ Head(s) \in {"+", "-"}
        digits == IF signed THEN Tail(s) ELSE s
        r == ParseDigits(digits, Zero64, FALSE)
        minInt == [i \in 1..8 |-> IF i = 8 THEN 128 ELSE 0]
    IN  IF digits = <<>> \/ r.syntax THEN [value |-> Zero64, err |-> "syntax"]
        ELSE IF r.overflow \/ (IsNegative64(r.value) /\ ~(neg /\ r.value = minInt))
        THEN [value |-> Zero64, err |-> "range"]
        ELSE [value |-> IF neg THEN Neg64(r.value) ELSE r.value, err |-> Nil]

\* An environment variable: os.Getenv returns "" when it is not set.
Unset == [set |-> FALSE, value |-> <<>>]

Setenv(s) == [set |-> TRUE, value |-> s]

getEnv(variable, defaultValue) ==
    IF variable.value # <<>> THEN variable.value ELSE defaultValue

DefaultFetchInterval == 30

\* LoadConfig: the FetchInterval field, from the variable FETCH_INTERVAL.
LoadConfig(variable) ==
    LET r == Atoi(getEnv(variable, <<"3", "0">>))
    IN  IF r.err # Nil THEN Word(DefaultFetchInterval) ELSE r.value

Second == 1000000000

\* main: time.Duration(cfg.FetchInterval) * time.Second
Interval(fetchInterval) == Mul64(fetchInterval, Word(Second))

(***************************************************************************)
(* State.                                                                  *)
(***************************************************************************)
VARIABLES
    mainPc,        \* main: "test" (not this binary), "boot", "init", "waitSignal", "shutdown", "exited", "panicked", "fatal"
    ctxDone,       \* cancel() has been called: ctx.Done() is closed
    pc,            \* the ETL goroutine: "notStarted", "start", "select", a stage, "returned"
    now,           \* ticker intervals elapsed since Start created the ticker (the clock)
    tickPending,   \* ticker.C (capacity 1) holds a tick
    db,            \* [raw_data, processed_data]: the committed rows of the two tables
    fs,            \* [raw, processed]: the two directories of the file sink
    metrics,       \* the counters
    rawData,       \* runPipeline's rawData
    transformedData, \* runPipeline's transformedData
    outcome,       \* of the current or last cycle: "none", "running", "completed", "aborted"
    trace,         \* history: the stages the current or last cycle ran, with their errors
    pre,           \* history: db, fs and metrics when the current or last cycle started
    cyclesStarted, \* history: number of runPipeline invocations
    prompt,        \* history: every tick so far found the loop waiting in select with ticker.C empty
    upstream,      \* environment: the array the API endpoint serves
    srv,           \* the HTTP server: "unset" (Server.server is nil), "listening", "failed", "closed"
    response,      \* history: the last answer of /health or /ready
    events,        \* environment: intervals elapsed plus failures injected so far
    env,           \* environment: the variable FETCH_INTERVAL
    config,        \* cfg: [loaded, FetchInterval], FetchInterval a 64-bit word
    registry,      \* the names registered with prometheus.DefaultRegisterer
    tests          \* the test binary of package transform: [plan, started, at, errors]

vars ==
    <<mainPc, ctxDone, pc, now, tickPending, db, fs, metrics, rawData, transformedData,
      outcome, trace, pre, cyclesStarted, prompt, upstream, srv, response, events,
      env, config, registry, tests>>

bootVars == <<env, config, registry, tests>>

mainVars == <<mainPc, ctxDone>>
storeVars == <<db, fs, metrics>>
cycleVars == <<rawData, transformedData, outcome, trace, pre, cyclesStarted>>

Stages ==
    <<"Fetching", "PersistingRaw", "WritingRawFile", "Normalizing", "PersistingNormalized",
      "WritingNormalizedFile">>
StageSet == {Stages[i] : i \in 1..Len(Stages)}

NoData == [Records |-> <<>>, ProcessedAt |-> 0, TotalRecords |-> 0]

\* No request has been answered.
NoResponse == [path |-> "none", reachable |-> FALSE, status |-> 0]

\* The process is running: main has not returned and log.Fatalf has not run.
Alive == mainPc \in {"waitSignal", "shutdown"}

\* The arrays the upstream API may serve.
Batches == SeqsUpTo(SampleRecords, MaxBatch)

\* Another operation may fail in this run.
MayFail == events < MaxEvents

\* What the HTTP exchange of one FetchData call may do now.
Responses ==
    {[kind |-> "ok", data |-> upstream]}
        \cup {[kind |-> k, data |-> <<>>] : k \in IF MayFail THEN FetchKinds \ {"ok"} ELSE {}}

\* What the database may do during one insert of n records now.
DbFails(n) == IF MayFail THEN FailPoints(n) ELSE {NoFail}

\* What the file system may do during one Save call now.
FsFails == IF MayFail THEN FileFails ELSE {"none"}

Failed(err) == IF err # Nil THEN 1 ELSE 0

\* An entry of trace: the stage, the failure the environment injected into
\* it (NoFail when none) and the error the stage's call returned.
Entry(stage, fault, err) == [stage |-> stage, fault |-> fault, err |-> err]
Fault(at) == IF at \in {"none", "ok"} THEN NoFail ELSE [at |-> at, k |-> 0]

\* The test binary is not this process.
NoTests == [plan |-> <<>>, started |-> 0, at |-> "none", errors |-> 0]

\* main has initialized the logger, loaded the configuration and created
\* the metrics; FETCH_INTERVAL is not set.
Init ==
    /\ mainPc = "init"
    /\ ctxDone = FALSE
    /\ pc = "notStarted"
    /\ now = 0
    /\ tickPending = FALSE
    /\ db = [raw_data |-> <<>>, processed_data |-> <<>>]
    /\ fs = [raw |-> <<>>, processed |-> <<>>]
    /\ metrics = NewMetrics
    /\ rawData = <<>>
    /\ transformedData = NoData
    /\ outcome = "none"
    /\ trace = <<>>
    /\ pre = [db |-> db, fs |-> fs, metrics |-> metrics]
    /\ cyclesStarted = 0
    /\ prompt = TRUE
    /\ upstream \in Batches
    /\ srv = "unset"
    /\ response = NoResponse
    /\ events = 0
    /\ env = Unset
    /\ config = [loaded |-> TRUE, FetchInterval |-> LoadConfig(env)]
    /\ registry = RegisterAll({}, MetricNames).registry
    /\ tests = NoTests

(***************************************************************************)
(* main.go                                                                 *)
(***************************************************************************)
\* NewPostgresDB succeeds: main starts the goroutine that will run
\* srv.Start and the goroutine running etlService.Start, and waits for a
\* signal.
MainStart ==
    /\ mainPc = "init"
    /\ mainPc' = "waitSignal"
    /\ pc' = "start"
    /\ UNCHANGED <<ctxDone, now, tickPending, prompt, upstream, bootVars, srv, response, events>>
    /\ UNCHANGED storeVars
    /\ UNCHANGED cycleVars

\* NewPostgresDB fails: log.Fatalf exits the process.
MainFatal ==
    /\ mainPc = "init"
    /\ mainPc' = "fatal"
    /\ UNCHANGED <<ctxDone, pc, now, tickPending, prompt, upstream, bootVars, srv, response, events>>
    /\ UNCHANGED storeVars
    /\ UNCHANGED cycleVars

\* SIGINT or SIGTERM arrives: main calls cancel().
Signal ==
    /\ mainPc = "waitSignal"
    /\ mainPc' = "shutdown"
    /\ ctxDone' = TRUE
    /\ UNCHANGED <<pc, now, tickPending, prompt, upstream, bootVars, srv, response, events>>
    /\ UNCHANGED storeVars
    /\ UNCHANGED cycleVars

\* main calls srv.Shutdown, which calls s.server.Shutdown, and returns: the
\* process ends, and with it the ETL goroutine, wherever it is.  When the
\* server goroutine has not yet assigned s.server, the call dereferences a
\* nil *http.Server and the process panics.
MainExit ==
    /\ mainPc = "shutdown"
    /\ IF srv = "unset"
       THEN mainPc' = "panicked" /\ srv' = srv
       ELSE mainPc' = "exited" /\ srv' = "closed"
    /\ UNCHANGED <<ctxDone, pc, now, tickPending, prompt, upstream, bootVars, response, events>>
    /\ UNCHANGED storeVars
    /\ UNCHANGED cycleVars

(***************************************************************************)
(* internal/server/server.go                                               *)
(***************************************************************************)
\* The server goroutine runs Server.Start: it assigns s.server and calls
\* ListenAndServe, which listens or returns an error that main only logs.
ServerStart ==
    /\ Alive
    /\ srv = "unset"
    /\ \/ srv' = "listening" /\ events' = events
       \/ MayFail /\ srv' = "failed" /\ events' = events + 1
    /\ UNCHANGED <<pc, now, tickPending, prompt, upstream, bootVars, response>>
    /\ UNCHANGED mainVars
    /\ UNCHANGED storeVars
    /\ UNCHANGED cycleVars

(***************************************************************************)
(* internal/etl/service.go: ETLService.Start                               *)
(***************************************************************************)
\* A variant of Tick that starts the next cycle at the tick when a cycle is
\* still running.
TickPreempts ==
    /\ Alive
    /\ pc \notin {"notStarted", "start", "returned"}
    /\ srv # "unset"
    /\ events < MaxEvents
    /\ events' = events + 1
    /\ now' = now + 1
    /\ prompt' = (prompt /\ pc = "select" /\ ~tickPending)
    /\ IF pc \in StageSet
       THEN /\ tickPending' = tickPending
            /\ pc' = "Fetching"
            /\ rawData' = <<>>
            /\ transformedData' = NoData
            /\ outcome' = "running"
            /\ trace' = <<>>
            /\ pre' = [db |-> db, fs |-> fs, metrics |-> metrics]
            /\ cyclesStarted' = cyclesStarted + 1
       ELSE tickPending' = TRUE /\ pc' = pc /\ UNCHANGED cycleVars
    /\ UNCHANGED <<upstream, bootVars, srv, response>>
    /\ UNCHANGED mainVars
    /\ UNCHANGED storeVars

\* One interval elapses: the ticker sends on ticker.C, or drops the tick
\* when the channel still holds one.  An interval is a second or more: the
\* server goroutine, started before the ETL goroutine, has run Server.Start
\* by the time the first one has elapsed (a bound on scheduling delay).
Tick ==
    /\ Alive
    /\ pc \notin {"notStarted", "start", "returned"}
    /\ srv # "unset"
    /\ events < MaxEvents
    /\ events' = events + 1
    /\ now' = now + 1
    /\ tickPending' = TRUE
    /\ prompt' = (prompt /\ pc = "select" /\ ~tickPending)
    /\ UNCHANGED <<pc, upstream, bootVars, srv, response>>
    /\ UNCHANGED mainVars
    /\ UNCHANGED storeVars
    /\ UNCHANGED cycleVars

\* Entry into runPipeline.
BeginCycle ==
    /\ pc' = "Fetching"
    /\ rawData' = <<>>
    /\ transformedData' = NoData
    /\ outcome' = "running"
    /\ trace' = <<>>
    /\ pre' = [db |-> db, fs |-> fs, metrics |-> metrics]
    /\ cyclesStarted' = cyclesStarted + 1

\* A variant of StartFirst that goes to the loop without the immediate run.
StartFirstWaitsForTick ==
    /\ Alive
    /\ pc = "start"
    /\ Positive64(Interval(config.FetchInterval))
    /\ pc' = "select"
    /\ UNCHANGED <<now, tickPending, prompt, upstream, bootVars, srv, response, events>>
    /\ UNCHANGED mainVars
    /\ UNCHANGED storeVars
    /\ UNCHANGED cycleVars

\* Start creates the ticker and calls runPipeline at once.
StartFirst ==
    /\ Alive
    /\ pc = "start"
    /\ Positive64(Interval(config.FetchInterval))
    /\ BeginCycle
    /\ UNCHANGED <<now, tickPending, prompt, upstream, bootVars, srv, response, events>>
    /\ UNCHANGED mainVars
    /\ UNCHANGED storeVars

\* select takes case <-ctx.Done(): Start returns.
SelectDone ==
    /\ Alive
    /\ pc = "select"
    /\ ctxDone
    /\ pc' = "returned"
    /\ UNCHANGED <<now, tickPending, prompt, upstream, bootVars, srv, response, events>>
    /\ UNCHANGED mainVars
    /\ UNCHANGED storeVars
    /\ UNCHANGED cycleVars

\* A variant of SelectTick that lets the tick pass when the last cycle was
\* aborted.
SelectTickSuppressedAfterAbort ==
    /\ Alive
    /\ pc = "select"
    /\ tickPending
    /\ tickPending' = FALSE
    /\ IF outcome = "aborted"
       THEN pc' = pc /\ outcome' = "none" /\ UNCHANGED <<rawData, transformedData, trace, pre,
                                                            cyclesStarted>>
       ELSE BeginCycle
    /\ UNCHANGED <<now, prompt, upstream, bootVars, srv, response, events>>
    /\ UNCHANGED mainVars
    /\ UNCHANGED storeVars

\* A variant of SelectTick that takes the tick while runPipeline is still
\* running and starts the next run.
SelectTickWhileRunning ==
    /\ Alive
    /\ pc \in StageSet \cup {"select"}
    /\ tickPending
    /\ tickPending' = FALSE
    /\ BeginCycle
    /\ UNCHANGED <<now, prompt, upstream, bootVars, srv, response, events>>
    /\ UNCHANGED mainVars
    /\ UNCHANGED storeVars

\* A variant of SelectTick that leaves the tick it received in the channel,
\* as if the ticks of an overrun had queued up behind it.
SelectTickKeepsTick ==
    /\ Alive
    /\ pc = "select"
    /\ tickPending
    /\ tickPending' = tickPending
    /\ BeginCycle
    /\ UNCHANGED <<now, prompt, upstream, bootVars, srv, response, events>>
    /\ UNCHANGED mainVars
    /\ UNCHANGED storeVars

\* select takes case <-ticker.C: runPipeline is called.  When both cases are
\* ready the Go runtime picks one of them at random.
SelectTick ==
    /\ Alive
    /\ pc = "select"
    /\ tickPending
    /\ tickPending' = FALSE
    /\ BeginCycle
    /\ UNCHANGED <<now, prompt, upstream, bootVars, srv, response, events>>
    /\ UNCHANGED mainVars
    /\ UNCHANGED storeVars

(***************************************************************************)
(* internal/etl/service.go: ETLService.runPipeline, one action per stage.  *)
(* A stage's action is the blocking call and the statements up to the      *)
(* next one.  runPipeline returns to the loop of Start: pc = "select".     *)
(***************************************************************************)
\* A variant of Fetch that goes on to the raw insert after a failed fetch.
FetchIgnoresError ==
    /\ Alive
    /\ pc = "Fetching"
    /\ \E resp \in Responses :
        LET r == FetchData(metrics, resp)
        IN  /\ metrics' = r.metrics
            /\ rawData' = r.data
            /\ trace' = Append(trace, Entry("Fetching", Fault(resp.kind), r.err))
            /\ events' = events + Failed(r.err)
    /\ pc' = "PersistingRaw"
    /\ UNCHANGED <<now, tickPending, prompt, upstream, bootVars, srv, response, db, fs, transformedData, outcome, pre,
                   cyclesStarted>>
    /\ UNCHANGED mainVars

\* A variant of Fetch that calls FetchData again when it has failed.
FetchRetriesOnError ==
    /\ Alive
    /\ pc = "Fetching"
    /\ \E resp \in Responses :
        LET r == FetchData(metrics, resp)
        IN  /\ metrics' = r.metrics
            /\ rawData' = r.data
            /\ trace' = Append(trace, Entry("Fetching", Fault(resp.kind), r.err))
            /\ events' = events + Failed(r.err)
            /\ pc' = IF r.err # Nil THEN "Fetching" ELSE "PersistingRaw"
            /\ outcome' = outcome
    /\ UNCHANGED <<now, tickPending, prompt, upstream, bootVars, srv, response, db, fs, transformedData,
                   pre, cyclesStarted>>
    /\ UNCHANGED mainVars

\* 1. Extract: FetchData; on error log and return.
Fetch ==
    /\ Alive
    /\ pc = "Fetching"
    /\ \E resp \in Responses :
        LET r == FetchData(metrics, resp)
        IN  /\ metrics' = r.metrics
            /\ rawData' = r.data
            /\ trace' = Append(trace, Entry("Fetching", Fault(resp.kind), r.err))
            /\ events' = events + Failed(r.err)
            /\ IF r.err # Nil
               THEN pc' = "select" /\ outcome' = "aborted"
               ELSE pc' = "PersistingRaw" /\ outcome' = outcome
    /\ UNCHANGED <<now, tickPending, prompt, upstream, bootVars, srv, response, db, fs, transformedData, pre, cyclesStarted>>
    /\ UNCHANGED mainVars

\* A variant of PersistRaw that goes on to the file write after a failed
\* insert.
PersistRawIgnoresError ==
    /\ Alive
    /\ pc = "PersistingRaw"
    /\ \E fail \in DbFails(Len(rawData)) :
        LET r == InsertRawData(db.raw_data, rawData, fail)
            m == Inc(metrics, "DatabaseWritesTotal")
        IN  /\ db' = [db EXCEPT !.raw_data = r.table]
            /\ trace' = Append(trace, Entry("PersistingRaw", fail, r.err))
            /\ events' = events + Failed(r.err)
            /\ metrics' = IF r.err # Nil THEN Inc(m, "DatabaseWriteErrorsTotal") ELSE m
            /\ pc' = "WritingRawFile"
            /\ outcome' = outcome
    /\ UNCHANGED <<now, tickPending, prompt, upstream, bootVars, srv, response, fs, rawData, transformedData, pre, cyclesStarted>>
    /\ UNCHANGED mainVars

\* A variant of PersistRaw that goes from a successful insert straight to
\* the transformation.
PersistRawSkipsFile ==
    /\ Alive
    /\ pc = "PersistingRaw"
    /\ \E fail \in DbFails(Len(rawData)) :
        LET r == InsertRawData(db.raw_data, rawData, fail)
            m == Inc(metrics, "DatabaseWritesTotal")
        IN  /\ db' = [db EXCEPT !.raw_data = r.table]
            /\ trace' = Append(trace, Entry("PersistingRaw", fail, r.err))
            /\ events' = events + Failed(r.err)
            /\ IF r.err # Nil
               THEN /\ metrics' = Inc(m, "DatabaseWriteErrorsTotal")
                    /\ pc' = "select"
                    /\ outcome' = "aborted"
               ELSE /\ metrics' = m
                    /\ pc' = "Normalizing"
                    /\ outcome' = outcome
    /\ UNCHANGED <<now, tickPending, prompt, upstream, bootVars, srv, response, fs, rawData, transformedData, pre, cyclesStarted>>
    /\ UNCHANGED mainVars

\* 2. DatabaseWritesTotal.Inc(); InsertRawData; on error count it, log and
\* return.
PersistRaw ==
    /\ Alive
    /\ pc = "PersistingRaw"
    /\ \E fail \in DbFails(Len(rawData)) :
        LET r == InsertRawData(db.raw_data, rawData, fail)
            m == Inc(metrics, "DatabaseWritesTotal")
        IN  /\ db' = [db EXCEPT !.raw_data = r.table]
            /\ trace' = Append(trace, Entry("PersistingRaw", fail, r.err))
            /\ events' = events + Failed(r.err)
            /\ IF r.err # Nil
               THEN /\ metrics' = Inc(m, "DatabaseWriteErrorsTotal")
                    /\ pc' = "select"
                    /\ outcome' = "aborted"
               ELSE /\ metrics' = m
                    /\ pc' = "WritingRawFile"
                    /\ outcome' = outcome
    /\ UNCHANGED <<now, tickPending, prompt, upstream, bootVars, srv, response, fs, rawData, transformedData, pre, cyclesStarted>>
    /\ UNCHANGED mainVars

\* A variant of WriteRawFile that counts the save whether or not the file
\* write succeeded.
WriteRawFileCountsFailure ==
    /\ Alive
    /\ pc = "WritingRawFile"
    /\ \E fail \in FsFails :
        LET r == SaveRawData(fs.raw, rawData, now, fail)
        IN  /\ fs' = [fs EXCEPT !.raw = r.dir]
            /\ trace' = Append(trace, Entry("WritingRawFile", Fault(fail), r.err))
            /\ events' = events + Failed(r.err)
            /\ metrics' = Inc(metrics, "DataSavedTotal")
    /\ pc' = "Normalizing"
    /\ UNCHANGED <<now, tickPending, prompt, upstream, bootVars, srv, response, db, rawData, transformedData, outcome, pre,
                   cyclesStarted>>
    /\ UNCHANGED mainVars

\* A variant of WriteRawFile that returns from runPipeline when the file
\* write fails.
WriteRawFileAbortsOnError ==
    /\ Alive
    /\ pc = "WritingRawFile"
    /\ \E fail \in FsFails :
        LET r == SaveRawData(fs.raw, rawData, now, fail)
        IN  /\ fs' = [fs EXCEPT !.raw = r.dir]
            /\ trace' = Append(trace, Entry("WritingRawFile", Fault(fail), r.err))
            /\ events' = events + Failed(r.err)
            /\ IF r.err # Nil
               THEN metrics' = metrics /\ pc' = "select" /\ outcome' = "aborted"
               ELSE metrics' = Inc(metrics, "DataSavedTotal")
                    /\ pc' = "Normalizing" /\ outcome' = outcome
    /\ UNCHANGED <<now, tickPending, prompt, upstream, bootVars, srv, response, db, rawData, transformedData, pre, cyclesStarted>>
    /\ UNCHANGED mainVars

\* 3. SaveRawData; on error log and continue, else DataSavedTotal.Inc().
WriteRawFile ==
    /\ Alive
    /\ pc = "WritingRawFile"
    /\ \E fail \in FsFails :
        LET r == SaveRawData(fs.raw, rawData, now, fail)
        IN  /\ fs' = [fs EXCEPT !.raw = r.dir]
            /\ trace' = Append(trace, Entry("WritingRawFile", Fault(fail), r.err))
            /\ events' = events + Failed(r.err)
            /\ metrics' = IF r.err # Nil THEN metrics ELSE Inc(metrics, "DataSavedTotal")
    /\ pc' = "Normalizing"
    /\ UNCHANGED <<now, tickPending, prompt, upstream, bootVars, srv, response, db, rawData, transformedData, outcome, pre,
                   cyclesStarted>>
    /\ UNCHANGED mainVars

\* A variant of Normalize that gives the cycle up when a record was
\* rejected.
NormalizeAbortsOnRejection ==
    /\ Alive
    /\ pc = "Normalizing"
    /\ \E conv \in Conversions :
        LET r == Transform(rawData, now, conv)
        IN  /\ metrics' = Add(Add(metrics, "RecordsProcessedTotal", Len(r.data.Records)),
                              "TransformationErrorTotal", r.errorCount)
            /\ transformedData' = r.data
            /\ trace' = Append(trace, Entry("Normalizing", NoFail, r.err))
            /\ events' = events
            /\ IF r.err # Nil \/ r.errorCount > 0
               THEN pc' = "select" /\ outcome' = "aborted"
               ELSE pc' = "PersistingNormalized" /\ outcome' = outcome
    /\ UNCHANGED <<now, tickPending, prompt, upstream, bootVars, srv, response, db, fs, rawData, pre, cyclesStarted>>
    /\ UNCHANGED mainVars

\* A variant of Normalize whose transformer filters the batch in place: the
\* rejected records are gone from the fetched sequence afterwards.
NormalizeFiltersInPlace ==
    /\ Alive
    /\ pc = "Normalizing"
    /\ \E conv \in Conversions :
        LET r == Transform(rawData, now, conv)
        IN  /\ metrics' = Add(Add(metrics, "RecordsProcessedTotal", Len(r.data.Records)),
                              "TransformationErrorTotal", r.errorCount)
            /\ transformedData' = r.data
            /\ rawData' = SelectSeq(rawData, LAMBDA rec : transformRecord(rec, conv).err = Nil)
            /\ trace' = Append(trace, Entry("Normalizing", NoFail, r.err))
            /\ events' = events
            /\ IF r.err # Nil
               THEN pc' = "select" /\ outcome' = "aborted"
               ELSE pc' = "PersistingNormalized" /\ outcome' = outcome
    /\ UNCHANGED <<now, tickPending, prompt, upstream, bootVars, srv, response, db, fs, pre, cyclesStarted>>
    /\ UNCHANGED mainVars

\* 4. Transform; on error log and return.
Normalize ==
    /\ Alive
    /\ pc = "Normalizing"
    /\ \E conv \in Conversions :
        LET r == Transform(rawData, now, conv)
        IN  /\ metrics' = Add(Add(metrics, "RecordsProcessedTotal", Len(r.data.Records)),
                              "TransformationErrorTotal", r.errorCount)
            /\ transformedData' = r.data
            /\ trace' = Append(trace, Entry("Normalizing", NoFail, r.err))
            /\ events' = events
            /\ IF r.err # Nil
               THEN pc' = "select" /\ outcome' = "aborted"
               ELSE pc' = "PersistingNormalized" /\ outcome' = outcome
    /\ UNCHANGED <<now, tickPending, prompt, upstream, bootVars, srv, response, db, fs, rawData, pre, cyclesStarted>>
    /\ UNCHANGED mainVars

\* A variant of PersistNormalized that goes on to the file write after a
\* failed insert.
PersistNormalizedIgnoresError ==
    /\ Alive
    /\ pc = "PersistingNormalized"
    /\ \E fail \in DbFails(Len(transformedData.Records)) :
        LET r == InsertProcessedData(db.processed_data, transformedData.Records, fail)
            m == Inc(metrics, "DatabaseWritesTotal")
        IN  /\ db' = [db EXCEPT !.processed_data = r.table]
            /\ trace' = Append(trace, Entry("PersistingNormalized", fail, r.err))
            /\ events' = events + Failed(r.err)
            /\ metrics' = IF r.err # Nil THEN Inc(m, "DatabaseWriteErrorsTotal") ELSE m
            /\ pc' = "WritingNormalizedFile"
            /\ outcome' = outcome
    /\ UNCHANGED <<now, tickPending, prompt, upstream, bootVars, srv, response, fs, rawData, transformedData, pre, cyclesStarted>>
    /\ UNCHANGED mainVars

\* A variant of PersistNormalized in which both inserts of a cycle share a
\* transaction: a failed insert of the processed records also takes back
\* the raw rows of the cycle.
PersistNormalizedRollsBackCycle ==
    /\ Alive
    /\ pc = "PersistingNormalized"
    /\ \E fail \in DbFails(Len(transformedData.Records)) :
        LET r == InsertProcessedData(db.processed_data, transformedData.Records, fail)
            m == Inc(metrics, "DatabaseWritesTotal")
        IN  /\ trace' = Append(trace, Entry("PersistingNormalized", fail, r.err))
            /\ events' = events + Failed(r.err)
            /\ IF r.err # Nil
               THEN /\ db' = pre.db
                    /\ metrics' = Inc(m, "DatabaseWriteErrorsTotal")
                    /\ pc' = "select"
                    /\ outcome' = "aborted"
               ELSE /\ db' = [db EXCEPT !.processed_data = r.table]
                    /\ metrics' = m
                    /\ pc' = "WritingNormalizedFile"
                    /\ outcome' = outcome
    /\ UNCHANGED <<now, tickPending, prompt, upstream, bootVars, srv, response, fs, rawData, transformedData, pre, cyclesStarted>>
    /\ UNCHANGED mainVars

\* 5. DatabaseWritesTotal.Inc(); InsertProcessedData; on error count it, log
\* and return.
PersistNormalized ==
    /\ Alive
    /\ pc = "PersistingNormalized"
    /\ \E fail \in DbFails(Len(transformedData.Records)) :
        LET r == InsertProcessedData(db.processed_data, transformedData.Records, fail)
            m == Inc(metrics, "DatabaseWritesTotal")
        IN  /\ db' = [db EXCEPT !.processed_data = r.table]
            /\ trace' = Append(trace, Entry("PersistingNormalized", fail, r.err))
            /\ events' = events + Failed(r.err)
            /\ IF r.err # Nil
               THEN /\ metrics' = Inc(m, "DatabaseWriteErrorsTotal")
                    /\ pc' = "select"
                    /\ outcome' = "aborted"
               ELSE /\ metrics' = m
                    /\ pc' = "WritingNormalizedFile"
                    /\ outcome' = outcome
    /\ UNCHANGED <<now, tickPending, prompt, upstream, bootVars, srv, response, fs, rawData, transformedData, pre, cyclesStarted>>
    /\ UNCHANGED mainVars

\* A variant of WriteNormalizedFile that returns without the completion log
\* when the file write fails.
WriteNormalizedFileAbortsOnError ==
    /\ Alive
    /\ pc = "WritingNormalizedFile"
    /\ \E fail \in FsFails :
        LET r == SaveProcessedData(fs.processed, transformedData, now, fail)
        IN  /\ fs' = [fs EXCEPT !.processed = r.dir]
            /\ trace' = Append(trace, Entry("WritingNormalizedFile", Fault(fail), r.err))
            /\ events' = events + Failed(r.err)
            /\ metrics' = IF r.err # Nil THEN metrics ELSE Inc(metrics, "DataSavedTotal")
            /\ outcome' = IF r.err # Nil THEN "aborted" ELSE "completed"
    /\ pc' = "select"
    /\ UNCHANGED <<now, tickPending, prompt, upstream, bootVars, srv, response, db, rawData, transformedData, pre, cyclesStarted>>
    /\ UNCHANGED mainVars

\* 6. SaveProcessedData; on error log and continue, else
\* DataSavedTotal.Inc(); then the "Cycle Completed" log and return.
WriteNormalizedFile ==
    /\ Alive
    /\ pc = "WritingNormalizedFile"
    /\ \E fail \in FsFails :
        LET r == SaveProcessedData(fs.processed, transformedData, now, fail)
        IN  /\ fs' = [fs EXCEPT !.processed = r.dir]
            /\ trace' = Append(trace, Entry("WritingNormalizedFile", Fault(fail), r.err))
            /\ events' = events + Failed(r.err)
            /\ metrics' = IF r.err # Nil THEN metrics ELSE Inc(metrics, "DataSavedTotal")
    /\ outcome' = "completed"
    /\ pc' = "select"
    /\ UNCHANGED <<now, tickPending, prompt, upstream, bootVars, srv, response, db, rawData, transformedData, pre, cyclesStarted>>
    /\ UNCHANGED mainVars

Next ==
    \/ MainStart
    \/ MainFatal
    \/ Signal
    \/ MainExit
    \/ ServerStart
    \/ Tick
    \/ StartFirst
    \/ SelectDone
    \/ SelectTick
    \/ Fetch
    \/ PersistRaw
    \/ WriteRawFile
    \/ Normalize
    \/ PersistNormalized
    \/ WriteNormalizedFile

Spec == Init /\ [][Next]_vars

(***************************************************************************)
(* internal/server/server.go: the /health and /ready handlers, served by   *)
(* the listener while the pipeline runs.  Whether the store answers the    *)
(* ping of a request is the environment's choice at that request.          *)
(***************************************************************************)
StatusOK == 200

StatusServiceUnavailable == 503

\* internal/database/postgres.go: PostgresDB.HealthCheck returns the error
\* of PingContext, nil when the store answers within the timeout.
HealthCheck(reachable) == IF reachable THEN Nil ELSE "ping failed"

healthHandlerAlwaysOK(reachable) == StatusOK

healthHandler(reachable) ==
    IF HealthCheck(reachable) # Nil THEN StatusServiceUnavailable ELSE StatusOK

readyHandler(reachable) ==
    IF HealthCheck(reachable) # Nil THEN StatusServiceUnavailable ELSE StatusOK

\* The multiplexer dispatches a request to the handler of its path; the
\* listener serves from ListenAndServe until main has shut it down.
Serve(path, reachable) ==
    /\ srv = "listening"
    /\ mainPc \in {"waitSignal", "shutdown"}
    /\ response' = [path |-> path, reachable |-> reachable,
                    status |-> IF path = "/health" THEN healthHandler(reachable)
                                                   ELSE readyHandler(reachable)]
    /\ UNCHANGED <<pc, now, tickPending, prompt, upstream, bootVars, srv, events>>
    /\ UNCHANGED mainVars
    /\ UNCHANGED storeVars
    /\ UNCHANGED cycleVars

HealthRequest == \E reachable \in BOOLEAN : Serve("/health", reachable)

ReadyRequest == \E reachable \in BOOLEAN : Serve("/ready", reachable)

(***************************************************************************)
(* Start-up alone: main from its first statement to the first cycle, for   *)
(* every value of FETCH_INTERVAL.                                          *)
(***************************************************************************)
pipelineVars ==
    <<ctxDone, pc, now, tickPending, db, fs, metrics, rawData, transformedData, outcome,
      trace, pre, cyclesStarted, prompt, upstream, srv, response, events>>

\* main up to NewPostgresDB: NewLogger (log.Fatalf when it fails),
\* LoadConfig, NewMetrics.
MainBoot ==
    /\ mainPc = "boot"
    /\ \/ /\ mainPc' = "init"
          /\ config' = [loaded |-> TRUE, FetchInterval |-> LoadConfig(env)]
          /\ registry' = RegisterAll(registry, MetricNames).registry
       \/ /\ mainPc' = "fatal"
          /\ UNCHANGED <<config, registry>>
    /\ UNCHANGED <<env, tests>>
    /\ UNCHANGED pipelineVars

\* Start: time.NewTicker panics on an interval that is not positive, and
\* the panic of a goroutine ends the process.
StartTickerPanics ==
    /\ Alive
    /\ pc = "start"
    /\ ~Positive64(Interval(config.FetchInterval))
    /\ mainPc' = "panicked"
    /\ UNCHANGED bootVars
    /\ UNCHANGED pipelineVars

\* The characters of the values given to FETCH_INTERVAL.
EnvAlphabet == {"0", "1", "3", "-", "+", "x", " "}

\* Values longer than the bound: the largest number of seconds that fits a
\* Duration, the two numbers past it whose product with time.Second wraps,
\* and the ends of the range of int.
LongValues ==
    {<<"9", "2", "2", "3", "3", "7", "2", "0", "3", "6">>,
     <<"9", "2", "2", "3", "3", "7", "2", "0", "3", "7">>,
     <<"1", "8", "4", "4", "6", "7", "4", "4", "0", "7", "4">>,
     <<"9", "2", "2", "3", "3", "7", "2", "0", "3", "6", "8", "5", "4", "7", "7", "5", "8", "0",
       "7">>,
     <<"9", "2", "2", "3", "3", "7", "2", "0", "3", "6", "8", "5", "4", "7", "7", "5", "8", "0",
       "8">>,
     <<"-", "9", "2", "2", "3", "3", "7", "2", "0", "3", "6", "8", "5", "4", "7", "7", "5", "8",
       "0", "8">>}

EnvValues ==
    {Unset} \cup {Setenv(s) : s \in SeqsUpTo(EnvAlphabet, MaxLen) \cup LongValues}

InitConfig ==
    /\ mainPc = "boot"
    /\ ctxDone = FALSE
    /\ pc = "notStarted"
    /\ now = 0
    /\ tickPending = FALSE
    /\ db = [raw_data |-> <<>>, processed_data |-> <<>>]
    /\ fs = [raw |-> <<>>, processed |-> <<>>]
    /\ metrics = NewMetrics
    /\ rawData = <<>>
    /\ transformedData = NoData
    /\ outcome = "none"
    /\ trace = <<>>
    /\ pre = [db |-> db, fs |-> fs, metrics |-> metrics]
    /\ cyclesStarted = 0
    /\ prompt = TRUE
    /\ upstream = <<RecGood>>
    /\ srv = "unset"
    /\ response = NoResponse
    /\ events = 0
    /\ env \in EnvValues
    /\ config = [loaded |-> FALSE, FetchInterval |-> Zero64]
    /\ registry = {}
    /\ tests = NoTests

NextConfig ==
    \/ MainBoot
    \/ MainFatal
    \/ MainStart
    \/ StartFirst
    \/ StartTickerPanics

SpecConfig == InitConfig /\ [][NextConfig]_vars

(***************************************************************************)
(* The test binary of package transform (transformer_test.go): the tests   *)
(* of the plan run one after another in one process, each constructing its *)
(* own Metrics.  The plan is what the go test flags (-run, -count,         *)
(* -shuffle) select.                                                       *)
(***************************************************************************)
TestNames == {"TestTransformRecord", "TestTransform", "TestTransformEmptyData"}

\* The table of TestTransformRecord.
TestCases ==
    <<[input |->
        [userId |-> JNum(FALSE, 1, 0),
         title |-> JStr(<<"T", "e", "s", "t", " ", "T", "i", "t", "l", "e">>),
         body |-> JStr(<<"T", "e", "s", "t", " ", "B", "o", "d", "y">>)],
       expectError |-> FALSE, expectedID |-> 1],
      [input |->
        [userId |-> JAbsent,
         title |-> JStr(<<"T", "e", "s", "t", " ", "T", "i", "t", "l", "e">>),
         body |-> JStr(<<"T", "e", "s", "t", " ", "B", "o", "d", "y">>)],
       expectError |-> TRUE, expectedID |-> 0],
      [input |->
        [userId |-> JNum(FALSE, 1, 0),
         title |-> JStr(<<>>),
         body |-> JStr(<<"T", "e", "s", "t", " ", "B", "o", "d", "y">>)],
       expectError |-> TRUE, expectedID |-> 0],
      [input |->
        [userId |-> JNum(FALSE, 2, 0),
         title |-> JStr(<<" ", " ", "T", "i", "t", "l", "e", " ", "w", "i", "t", "h", " ", "s",
                         "p", "a", "c", "e", "s", " ", " ">>),
         body |-> JStr(<<" ", " ", "B", "o", "d", "y", " ", "w", "i", "t", "h", " ", "s", "p",
                        "a", "c", "e", "s", " ", " ">>)],
       expectError |-> FALSE, expectedID |-> 2]>>

\* The rawData of TestTransform.
TestRawData ==
    <<[userId |-> JNum(FALSE, 1, 0),
         title |-> JStr(<<"F", "i", "r", "s", "t", " ", "P", "o", "s", "t">>),
         body |-> JStr(<<"F", "i", "r", "s", "t", " ", "B", "o", "d", "y">>)],
      [userId |-> JNum(FALSE, 2, 0),
         title |-> JStr(<<"S", "e", "c", "o", "n", "d", " ", "P", "o", "s", "t">>),
         body |-> JStr(<<"S", "e", "c", "o", "n", "d", " ", "B", "o", "d", "y">>)],
      [userId |-> JAbsent,
         title |-> JStr(<<"N", "o", " ", "U", "s", "e", "r", "I", "D">>),
         body |-> JStr(<<"I", "n", "v", "a", "l", "i", "d">>)]>>

FirstPost == <<"F", "i", "r", "s", "t", " ", "P", "o", "s", "t">>

\* The t.Errorf calls of the sub-tests of TestTransformRecord.
TestTransformRecordErrors(conv) ==
    Cardinality({i \in 1..Len(TestCases) :
        LET tt == TestCases[i]
            r == transformRecord(tt.input, conv)
        IN  IF tt.expectError THEN r.err = Nil
            ELSE r.err # Nil \/ r.rec.UserID # tt.expectedID})

\* The t.Errorf calls of TestTransform on the result of Transform.
TestTransformErrors(r) ==
    (IF r.err # Nil THEN 1 ELSE 0)
    + (IF Len(r.data.Records) # 2 THEN 1 ELSE 0)
    + (IF r.data.TotalRecords # 2 THEN 1 ELSE 0)
    + (IF r.data.Records # <<>> /\ r.data.Records[1].UserID # 1 THEN 1 ELSE 0)
    + (IF r.data.Records # <<>> /\ r.data.Records[1].Title # FirstPost THEN 1 ELSE 0)

\* The t.Errorf calls of TestTransformEmptyData.
TestTransformEmptyDataErrors(r) ==
    (IF r.err # Nil THEN 1 ELSE 0) + (IF Len(r.data.Records) # 0 THEN 1 ELSE 0)

\* The first statements of a test: NewLogger, NewMetrics, NewTransformer.
\* A panic of NewMetrics ends the test binary.
TestSetup ==
    /\ tests.at = "idle"
    /\ tests.started < Len(tests.plan)
    /\ LET r == RegisterAll(registry, MetricNames)
       IN  /\ registry' = r.registry
           /\ tests' = [tests EXCEPT !.started = @ + 1,
                                     !.at = IF r.panic THEN "panicked" ELSE "body"]
           /\ metrics' = IF r.panic THEN metrics ELSE NewMetrics
    /\ UNCHANGED <<env, config>>
    /\ UNCHANGED <<mainPc, ctxDone, pc, now, tickPending, db, fs, rawData, transformedData,
                   outcome, trace, pre, cyclesStarted, prompt, upstream, srv, response, events>>

\* The rest of the test: the calls of the transformer and the checks.
TestBody ==
    /\ tests.at = "body"
    /\ \E conv \in Conversions :
        LET name == tests.plan[tests.started]
            data == IF name = "TestTransform" THEN TestRawData ELSE <<>>
            r == Transform(data, now, conv)
        IN  IF name = "TestTransformRecord"
            THEN /\ tests' = [tests EXCEPT !.at = "idle",
                                           !.errors = @ + TestTransformRecordErrors(conv)]
                 /\ UNCHANGED <<metrics, transformedData>>
            ELSE /\ tests' = [tests EXCEPT
                                !.at = "idle",
                                !.errors = @ + IF name = "TestTransform"
                                               THEN TestTransformErrors(r)
                                               ELSE TestTransformEmptyDataErrors(r)]
                 /\ metrics' = Add(Add(metrics, "RecordsProcessedTotal", Len(r.data.Records)),
                                   "TransformationErrorTotal", r.errorCount)
                 /\ transformedData' = r.data
    /\ UNCHANGED <<env, config, registry>>
    /\ UNCHANGED <<mainPc, ctxDone, pc, now, tickPending, db, fs, rawData, outcome, trace, pre,
                   cyclesStarted, prompt, upstream, srv, response, events>>

InitTests ==
    /\ mainPc = "test"
    /\ ctxDone = FALSE
    /\ pc = "notStarted"
    /\ now = 0
    /\ tickPending = FALSE
    /\ db = [raw_data |-> <<>>, processed_data |-> <<>>]
    /\ fs = [raw |-> <<>>, processed |-> <<>>]
    /\ metrics = NewMetrics
    /\ rawData = <<>>
    /\ transformedData = NoData
    /\ outcome = "none"
    /\ trace = <<>>
    /\ pre = [db |-> db, fs |-> fs, metrics |-> metrics]
    /\ cyclesStarted = 0
    /\ prompt = TRUE
    /\ upstream = <<>>
    /\ srv = "unset"
    /\ response = NoResponse
    /\ events = 0
    /\ env = Unset
    /\ config = [loaded |-> FALSE, FetchInterval |-> Zero64]
    /\ registry = {}
    /\ tests \in {[plan |-> plan, started |-> 0, at |-> "idle", errors |-> 0] :
                    plan \in SeqsUpTo(TestNames, MaxLen)}

NextTests ==
    \/ TestSetup
    \/ TestBody

SpecTests == InitTests /\ [][NextTests]_vars

\* The pipeline with probes arriving at the listener; one batch upstream.
InitServer == Init /\ upstream = <<RecGood>>

NextServer ==
    \/ MainStart
    \/ MainFatal
    \/ Signal
    \/ MainExit
    \/ ServerStart
    \/ Tick
    \/ StartFirst
    \/ SelectDone
    \/ SelectTick
    \/ Fetch
    \/ PersistRaw
    \/ WriteRawFile
    \/ Normalize
    \/ PersistNormalized
    \/ WriteNormalizedFile
    \/ HealthRequest
    \/ ReadyRequest

SpecServer == InitServer /\ [][NextServer]_vars

(***************************************************************************)
(* The transformer on its own.  The cycle stands at its Normalizing stage  *)
(* with a batch it has fetched, inserted and written: one record drawn     *)
(* from every combination of the kinds of value that transformRecord tells *)
(* apart in userId, title and body, or several records of BatchRecords.    *)
(* The cycle then runs to its end.                                         *)
(***************************************************************************)
UserIds ==
    {JAbsent, JNull, JBool, JStr(<<"1">>), JNum(FALSE, 1, 1), JNum(TRUE, 1, 1), JNum(FALSE, 2, 0),
     JBigNum(FALSE), JBigNum(TRUE)}
Titles ==
    {JAbsent, JNum(FALSE, 1, 0), JStr(<<>>), JStr(<<" ", "\t">>), JStr(<<"A">>),
     JStr(<<" ", "A", " ", "B", "\n">>)}
Bodies == {JAbsent, JNull, JStr(<<" ">>), JStr(<<" ", "B">>)}

RawRecords == [userId : UserIds, title : Titles, body : Bodies]

RecOther ==
    [userId |-> JNum(TRUE, 2, 0), title |-> JStr(<<"B">>), body |-> JStr(<<"B", " ">>)]
RecBlankTitle ==
    [userId |-> JNum(FALSE, 1, 0), title |-> JStr(<<" ">>), body |-> JStr(<<"B">>)]
BatchRecords == SampleRecords \cup {RecOther, RecBlankTitle}

NormalizerInputs == {<<r>> : r \in RawRecords} \cup SeqsUpTo(BatchRecords, MaxLen)

InitNormalizer ==
    /\ upstream \in NormalizerInputs
    /\ rawData = upstream
    /\ mainPc = "waitSignal"
    /\ ctxDone = FALSE
    /\ pc = "Normalizing"
    /\ now = 0
    /\ tickPending = FALSE
    /\ db = [raw_data |-> InsertRawData(<<>>, rawData, NoFail).table, processed_data |-> <<>>]
    /\ fs = [raw |-> SaveRawData(<<>>, rawData, now, "none").dir, processed |-> <<>>]
    /\ metrics =
         Inc(Inc(FetchData(NewMetrics, [kind |-> "ok", data |-> rawData]).metrics,
                 "DatabaseWritesTotal"),
             "DataSavedTotal")
    /\ transformedData = NoData
    /\ outcome = "running"
    /\ trace =
         <<Entry("Fetching", NoFail, Nil), Entry("PersistingRaw", NoFail, Nil),
           Entry("WritingRawFile", NoFail, Nil)>>
    /\ pre =
         [db |-> [raw_data |-> <<>>, processed_data |-> <<>>],
          fs |-> [raw |-> <<>>, processed |-> <<>>],
          metrics |-> NewMetrics]
    /\ cyclesStarted = 1
    /\ prompt = TRUE
    /\ srv = "listening"
    /\ response = NoResponse
    /\ events = 0
    /\ env = Unset
    /\ config = [loaded |-> TRUE, FetchInterval |-> LoadConfig(env)]
    /\ registry = RegisterAll({}, MetricNames).registry
    /\ tests = NoTests

NextNormalizer ==
    \/ Normalize
    \/ PersistNormalized
    \/ WriteNormalizedFile

SpecNormalizer == InitNormalizer /\ [][NextNormalizer]_vars

(***************************************************************************)
(* Properties.                                                             *)
(***************************************************************************)
Pending == IF tickPending THEN 1 ELSE 0

\* C1: once cancel() has been called (ctx.Done is closed), the loop of
\* Start begins no new runPipeline invocation, also when a tick is pending
\* as the loop re-enters its select: every step taken with ctxDone by the
\* loop leaves the number of invocations unchanged.  (The immediate run
\* that Start makes before the loop is left aside: a step from "start".)
C1_NoCycleAfterCancel ==
    [][(ctxDone /\ pc # "start") => cyclesStarted' = cyclesStarted]_vars

\* C2: a cycle that has started runs to its end before the shutdown takes
\* effect: when the process has stopped after the termination signal, the
\* ETL goroutine is not inside a cycle.
C2_NoMidCycleStop == mainPc = "exited" => pc \notin StageSet

\* C3: Start runs the cycle once at once and then once per elapsed
\* interval while cancellation has not been raised: when every tick found
\* the loop waiting (the cycle body takes no time), the invocations so far
\* are the immediate one plus one per interval elapsed, less the tick still
\* in ticker.C; so after three intervals there have been at least three.
C3_ImmediateThenPerInterval ==
    (prompt /\ ~ctxDone /\ pc \notin {"notStarted", "start"}) =>
        /\ cyclesStarted = 1 + now - Pending
        /\ (now >= 3 => cyclesStarted >= 3)

C3_Witness ==
    /\ prompt /\ ~ctxDone
    /\ now = 3 /\ ~tickPending /\ pc = "select"
    /\ cyclesStarted = 4

\* C4: a cycle whose fetch failed (network, status, read or decode) ran no
\* other stage and ended aborted: both tables and both directories are as
\* they were when the cycle started, the normalizer did not run, and
\* DatabaseWritesTotal and DataSavedTotal are unchanged.
C4_FetchFailureAborts ==
    (trace # <<>> /\ trace[1].fault # NoFail) =>
        /\ trace[1].err # Nil
        /\ Len(trace) = 1 /\ outcome = "aborted" /\ pc \notin StageSet
        /\ db = pre.db /\ fs = pre.fs
        /\ transformedData = NoData
        /\ metrics.DatabaseWritesTotal = pre.metrics.DatabaseWritesTotal
        /\ metrics.DataSavedTotal = pre.metrics.DataSavedTotal
        /\ metrics.RecordsProcessedTotal = pre.metrics.RecordsProcessedTotal
        /\ metrics.TransformationErrorTotal = pre.metrics.TransformationErrorTotal

C4_Witness ==
    /\ Len(trace) = 1 /\ trace[1].fault.at = "decode" /\ outcome = "aborted"
    /\ pre.db.raw_data # <<>>

\* C5: a cycle whose raw insert failed ran no later stage and ended
\* aborted: no raw file was written, the batch was not normalized, and
\* neither the processed table nor the processed directory changed.
C5_RawPersistFailureAborts ==
    (Len(trace) >= 2 /\ trace[2].fault # NoFail) =>
        /\ trace[2].err # Nil
        /\ Len(trace) = 2 /\ outcome = "aborted" /\ pc \notin StageSet
        /\ fs = pre.fs
        /\ db.processed_data = pre.db.processed_data
        /\ transformedData = NoData
        /\ metrics.RecordsProcessedTotal = pre.metrics.RecordsProcessedTotal
        /\ metrics.TransformationErrorTotal = pre.metrics.TransformationErrorTotal
        /\ metrics.DataSavedTotal = pre.metrics.DataSavedTotal

C5_Witness ==
    /\ Len(trace) = 2 /\ trace[2].fault.at = "commit" /\ outcome = "aborted"
    /\ rawData # <<>>

\* C6: a failed raw file write does not stop the cycle: the next stage is
\* Normalizing, then PersistingNormalized and (unless that insert fails)
\* WritingNormalizedFile and completion, with the rows Transform yields for
\* the fetched batch, as after a successful file write.
C6_RawFileFailureContinues ==
    (Len(trace) >= 3 /\ trace[3].fault # NoFail) =>
        /\ trace[3].err # Nil
        /\ (Len(trace) = 3 => pc = "Normalizing" /\ outcome = "running")
        /\ (Len(trace) >= 4 =>
                /\ trace[4].stage = "Normalizing"
                /\ \E conv \in Conversions :
                        transformedData.Records = Transform(rawData, now, conv).data.Records)
        /\ (Len(trace) = 4 => pc = "PersistingNormalized" /\ outcome = "running")
        /\ (Len(trace) >= 5 => trace[5].stage = "PersistingNormalized")
        /\ (Len(trace) >= 5 /\ trace[5].fault = NoFail =>
                db.processed_data = pre.db.processed_data \o transformedData.Records)
        /\ (Len(trace) = 5 /\ trace[5].fault = NoFail =>
                pc = "WritingNormalizedFile" /\ outcome = "running")
        /\ (Len(trace) = 6 =>
                trace[6].stage = "WritingNormalizedFile" /\ outcome = "completed")
        /\ (outcome = "aborted" => Len(trace) = 5 /\ trace[5].fault # NoFail)

C6_Witness ==
    /\ Len(trace) = 6 /\ trace[3].fault.at = "write" /\ trace[6].err = Nil
    /\ outcome = "completed"
    /\ db.processed_data # <<>>

\* C7: a cycle whose processed insert failed ended there: the processed
\* file was not written and the cycle did not report completion.
C7_NormalizedPersistFailureAborts ==
    (Len(trace) >= 5 /\ trace[5].fault # NoFail) =>
        /\ trace[5].err # Nil
        /\ Len(trace) = 5 /\ outcome = "aborted" /\ pc \notin StageSet
        /\ fs.processed = pre.fs.processed

C7_Witness ==
    /\ Len(trace) = 5 /\ trace[5].fault = [at |-> "exec", k |-> 1] /\ outcome = "aborted"
    /\ transformedData.Records # <<>>

\* C8: a failed processed file write does not fail the cycle: it ends in
\* its normal completion, and the rows the cycle committed to the two
\* tables are still there.
C8_NormalizedFileFailureCompletes ==
    (Len(trace) >= 6 /\ trace[6].fault # NoFail) =>
        /\ trace[6].err # Nil
        /\ outcome = "completed" /\ pc \notin StageSet
        /\ db.processed_data = pre.db.processed_data \o transformedData.Records
        /\ db.raw_data = pre.db.raw_data \o MarshalAll(rawData)

C8_Witness ==
    /\ Len(trace) = 6 /\ trace[6].fault.at = "open" /\ outcome = "completed"
    /\ transformedData.Records # <<>>

\* C9: Normalizing never fails the cycle: whatever the batch (empty, or
\* with every record rejected), Transform returns no error and the cycle
\* goes on to PersistingNormalized; a rejection only drops its own record
\* and is counted.
C9_NormalizingNeverFails ==
    Len(trace) >= 4 =>
        /\ trace[4].stage = "Normalizing" /\ trace[4].err = Nil
        /\ (Len(trace) = 4 => pc = "PersistingNormalized" /\ outcome = "running")
        /\ (Len(trace) >= 5 => trace[5].stage = "PersistingNormalized")
        /\ Len(transformedData.Records)
               + (metrics.TransformationErrorTotal - pre.metrics.TransformationErrorTotal)
             = Len(rawData)

C9_Witness ==
    /\ Len(trace) = 4 /\ pc = "PersistingNormalized"
    /\ Len(rawData) = 2 /\ transformedData.Records = <<>>

\* C10: each insert is all-or-nothing: when Begin, Prepare, the Exec of any
\* record k or Commit fails, the call returns an error and the table is as
\* it was before the call; otherwise it returns nil and the table has
\* gained every record of the batch, in order.
C10_PersistAllOrNothing ==
    /\ Len(trace) >= 2 =>
        IF trace[2].fault # NoFail
        THEN trace[2].err # Nil /\ db.raw_data = pre.db.raw_data
        ELSE /\ trace[2].err = Nil
             /\ db.raw_data = pre.db.raw_data \o MarshalAll(rawData)
             /\ Len(db.raw_data) = Len(pre.db.raw_data) + Len(rawData)
    /\ Len(trace) >= 5 =>
        IF trace[5].fault # NoFail
        THEN trace[5].err # Nil /\ db.processed_data = pre.db.processed_data
        ELSE /\ trace[5].err = Nil
             /\ db.processed_data = pre.db.processed_data \o transformedData.Records
             /\ Len(db.processed_data)
                  = Len(pre.db.processed_data) + Len(transformedData.Records)

C10_Witness ==
    /\ Len(trace) = 2 /\ trace[2].fault = [at |-> "exec", k |-> 2]
    /\ Len(rawData) = 2
    /\ pre.db.raw_data # <<>> /\ db.raw_data = pre.db.raw_data

\* C11: persisting an empty batch is not an error: with zero records,
\* InsertRawData and InsertProcessedData still begin and commit a
\* transaction (so a failing Begin or Commit is reported), and when the
\* database does not fail they return nil and leave the table as it was;
\* the cycle goes on to the next stage.
C11_EmptyBatchPersists ==
    /\ (Len(trace) >= 2 /\ rawData = <<>>) =>
        /\ db.raw_data = pre.db.raw_data
        /\ trace[2].err = (IF trace[2].fault = NoFail THEN Nil ELSE trace[2].fault.at)
        /\ trace[2].fault.at \in {"none", "begin", "prepare", "commit"}
        /\ (trace[2].fault = NoFail /\ Len(trace) = 2 => pc = "WritingRawFile")
    /\ (Len(trace) >= 5 /\ transformedData.Records = <<>>) =>
        /\ db.processed_data = pre.db.processed_data
        /\ trace[5].err = (IF trace[5].fault = NoFail THEN Nil ELSE trace[5].fault.at)
        /\ trace[5].fault.at \in {"none", "begin", "prepare", "commit"}
        /\ (trace[5].fault = NoFail /\ Len(trace) = 5 => pc = "WritingNormalizedFile")

C11_Witness ==
    /\ Len(trace) = 5 /\ pc = "WritingNormalizedFile"
    /\ rawData = <<>> /\ transformedData.Records = <<>>
    /\ trace[2].err = Nil /\ trace[5].err = Nil
    /\ db = pre.db

\* The rows a table has gained since the cycle started.
NewRows(table, before) == SubSeq(table, Len(before) + 1, Len(table))

Written(file) == SelectSeq(file, LAMBDA chunk : chunk.complete)

\* C13: the file sink never overwrites: every successful SaveRawData (and
\* SaveProcessedData) call has produced a file of its own, also when two
\* calls fall into the same second: no file holds more than one batch, and
\* the two directories hold as many files with a batch as there were
\* successful saves.
C13_NeverOverwrites ==
    /\ \A name \in DOMAIN fs.raw : Len(Written(fs.raw[name])) <= 1
    /\ \A name \in DOMAIN fs.processed : Len(Written(fs.processed[name])) <= 1
    /\ Cardinality({name \in DOMAIN fs.raw : Written(fs.raw[name]) # <<>>})
         + Cardinality({name \in DOMAIN fs.processed : Written(fs.processed[name]) # <<>>})
         = metrics.DataSavedTotal

\* C14: a file name collision is a reported error, not a silent append:
\* when the name a Save call computes already exists, the call returns an
\* error and the directory, the existing file with it, stays as it was.
C14_CollisionIsError ==
    [][/\ (pc = "WritingRawFile" /\ pc' # pc /\ now \in DOMAIN fs.raw) =>
            (trace'[3].err # Nil /\ fs'.raw = fs.raw)
       /\ (pc = "WritingNormalizedFile" /\ pc' # pc /\ now \in DOMAIN fs.processed) =>
            (trace'[6].err # Nil /\ fs'.processed = fs.processed)]_vars

\* t is s without its leading and trailing whitespace.
IsTrimOf(t, s) ==
    /\ t # <<>> => ~IsSpace(t[1]) /\ ~IsSpace(t[Len(t)])
    /\ \E i \in 0..Len(s) : \E j \in i..Len(s) :
            /\ SubSeq(s, i + 1, j) = t
            /\ \A k \in 1..Len(s) : (k <= i \/ k > j) => IsSpace(s[k])

\* The string a field holds: the empty string when it is absent or not a
\* string.
StringOf(v) == IF v.t = "str" THEN v.s ELSE <<>>

\* The int n is the float64 v truncated toward zero (the whole part of a
\* JBigNum is no int).
TruncatesTo(v, n) == v.t = "num" /\ n = (IF v.neg THEN 0 - v.w ELSE v.w)

\* The record has a numeric userId and a string title that is not empty
\* after trimming.
Acceptable(record) ==
    /\ IsFloat64(record.userId)
    /\ record.title.t = "str"
    /\ \E k \in 1..Len(record.title.s) : ~IsSpace(record.title.s[k])

\* Normalizing has run on a batch of the one record it was handed.
NormalizedOne == Len(trace) >= 4 /\ Len(rawData) = 1

RejectedOne ==
    /\ transformedData.Records = <<>> /\ transformedData.TotalRecords = 0
    /\ metrics.TransformationErrorTotal = pre.metrics.TransformationErrorTotal + 1
    /\ metrics.RecordsProcessedTotal = pre.metrics.RecordsProcessedTotal

\* C16: a raw record whose userId is absent, null or not a number is
\* rejected with the identifier reason, whatever its title and body: the
\* identifier check comes before the title check.
C16_BadIdentifierRejected ==
    (NormalizedOne /\ rawData[1].userId.t \in {"absent", "null", "bool", "str"}) =>
        /\ RejectedOne
        /\ \A conv \in Conversions :
                transformRecord(rawData[1], conv)
                    = [rec |-> ZeroProcessedRecord, err |-> "invalid or missing userId"]

C16_Witness ==
    /\ NormalizedOne /\ RejectedOne
    /\ rawData[1].userId = JNull
    /\ rawData[1].title = JStr(<<" ", "\t">>)

\* C17: a raw record with a numeric userId whose title is empty, only
\* whitespace, absent or not a string is rejected with the title reason: an
\* absent or non-string title counts as the empty string, and there is no
\* other reason for it.
C17_BadTitleRejected ==
    (/\ NormalizedOne
     /\ rawData[1].userId.t \in {"num", "bignum"}
     /\ \/ rawData[1].title.t # "str"
        \/ \A k \in 1..Len(rawData[1].title.s) : IsSpace(rawData[1].title.s[k])) =>
        /\ RejectedOne
        /\ \A conv \in Conversions :
                transformRecord(rawData[1], conv)
                    = [rec |-> ZeroProcessedRecord, err |-> "title cannot be empty"]

C17_Witness ==
    /\ NormalizedOne /\ RejectedOne
    /\ rawData[1].userId = JNum(FALSE, 2, 0)
    /\ rawData[1].title = JStr(<<" ", "\t">>)
    /\ rawData[1].body = JStr(<<" ", "B">>)

\* The raw records of the batch that pass both checks, in input order.
AcceptableOf(data) == SelectSeq(data, Acceptable)

\* C18: batch accounting: the records Transform returns are TotalRecords in
\* number, and as many as the batch has records that pass the checks;
\* together with the rejections they make up the input length;
\* RecordsProcessedTotal has grown by the number of accepted records and
\* TransformationErrorTotal by the number of rejected ones.
C18_BatchAccounting ==
    Len(trace) >= 4 =>
        LET accepted == Len(transformedData.Records)
            rejected == Len(rawData) - Len(AcceptableOf(rawData))
        IN  /\ transformedData.TotalRecords = accepted
            /\ accepted = Len(AcceptableOf(rawData))
            /\ accepted + rejected = Len(rawData)
            /\ metrics.RecordsProcessedTotal = pre.metrics.RecordsProcessedTotal + accepted
            /\ metrics.TransformationErrorTotal
                    = pre.metrics.TransformationErrorTotal + rejected

C18_Witness ==
    /\ Len(trace) >= 4
    /\ Len(rawData) = 3 /\ Len(transformedData.Records) = 1
    /\ metrics.RecordsProcessedTotal = 1 /\ metrics.TransformationErrorTotal = 2

\* out is the normalized record of the raw record: the identifier converted
\* to int, title and body trimmed.
IsNormalizedFrom(out, record) ==
    /\ IF record.userId.t = "num" THEN TruncatesTo(record.userId, out.UserID)
       ELSE out.UserID \in {MinInt, MaxInt}
    /\ IsTrimOf(out.Title, StringOf(record.title))
    /\ IsTrimOf(out.Body, StringOf(record.body))

\* C19: Transform preserves order: the k-th record of the output is the
\* normalized record of the k-th raw record of the input that passes the
\* checks; the rejected ones are skipped where they stand and no record
\* appears twice.
C19_OrderPreserved ==
    Len(trace) >= 4 =>
        /\ Len(transformedData.Records) = Len(AcceptableOf(rawData))
        /\ \A k \in 1..Len(transformedData.Records) :
                IsNormalizedFrom(transformedData.Records[k], AcceptableOf(rawData)[k])

C19_Witness ==
    /\ Len(trace) >= 4
    /\ rawData = <<RecOther, RecNoUser, RecGood>>
    /\ transformedData.Records =
         <<[UserID |-> 0 - 2, Title |-> <<"B">>, Body |-> <<"B">>],
           [UserID |-> 1, Title |-> <<"A">>, Body |-> <<>>]>>

\* The records of the processed files.
FileRecords ==
    UNION {UNION {{fs.processed[name][i].text.records.items[k] :
                      k \in 1..Len(fs.processed[name][i].text.records.items)} :
                  i \in 1..Len(fs.processed[name])} :
           name \in DOMAIN fs.processed}

\* The userId is a number with no fractional part, in the range of int.
IntegerValued(v) == v.t = "num" /\ v.h = 0

\* C20 as stated: every record handed to InsertProcessedData or written to
\* a processed file, hence every row of the processed table, is the
\* normalized record of a raw record whose userId is an integer-valued
\* number, and has a title that is not empty and has no leading or
\* trailing whitespace; no record is produced for a raw record that fails
\* these checks.
C20_NormalizedRecordInvariant ==
    Len(trace) >= 4 =>
        LET valid == SelectSeq(rawData, LAMBDA record :
                         Acceptable(record) /\ IntegerValued(record.userId))
        IN  /\ Len(transformedData.Records) = Len(valid)
            /\ \A k \in 1..Len(transformedData.Records) :
                    /\ IsNormalizedFrom(transformedData.Records[k], valid[k])
                    /\ transformedData.Records[k].Title # <<>>
            /\ db.processed_data \in {<<>>, transformedData.Records}
            /\ \A out \in FileRecords :
                    \E k \in 1..Len(transformedData.Records) :
                        [UserID |-> out.user_id, Title |-> out.title, Body |-> out.body]
                            = transformedData.Records[k]

\* C20, amended: every such record is the normalized record of a raw record
\* whose userId is a number, whether integer-valued or not (the conversion
\* to int drops a fraction and maps a number out of range to an int of the
\* build's choosing), and has a title that is not empty and has no leading
\* or trailing whitespace; no record is produced for a raw record whose
\* userId is not a number or whose title is empty after trimming.
C20_NormalizedRecordFromNumber ==
    Len(trace) >= 4 =>
        LET valid == AcceptableOf(rawData)
        IN  /\ Len(transformedData.Records) = Len(valid)
            /\ \A k \in 1..Len(transformedData.Records) :
                    /\ IsNormalizedFrom(transformedData.Records[k], valid[k])
                    /\ transformedData.Records[k].Title # <<>>
            /\ db.processed_data \in {<<>>, transformedData.Records}
            /\ \A out \in FileRecords :
                    \E k \in 1..Len(transformedData.Records) :
                        [UserID |-> out.user_id, Title |-> out.title, Body |-> out.body]
                            = transformedData.Records[k]

C20_Witness ==
    /\ Len(trace) = 6 /\ trace[5].err = Nil /\ trace[6].err = Nil
    /\ rawData = <<RecBlankTitle, RecGood, RecNoUser>>
    /\ db.processed_data = <<[UserID |-> 1, Title |-> <<"A">>, Body |-> <<>>]>>
    /\ FileRecords = {[user_id |-> 1, title |-> <<"A">>, body |-> <<>>]}

\* The number of entries of the trace whose stage is one of the given ones.
Attempts(stages) == Cardinality({i \in 1..Len(trace) : trace[i].stage \in stages})

C22_AbortEndsOnlyItsCycle ==
    /\ [](outcome = "aborted" =>
            /\ pc \in {"select", "returned"}
            /\ (pc = "returned" => ctxDone)
            /\ (pc = "select" /\ tickPending /\ Alive => ENABLED SelectTick))
    /\ [][(outcome = "aborted" /\ (pc' # pc \/ (tickPending /\ ~tickPending'))) =>
          /\ pc = "select"
          /\ \/ ctxDone /\ pc' = "returned" /\ cyclesStarted' = cyclesStarted
             \/ /\ tickPending /\ ~tickPending'
                /\ pc' = "Fetching" /\ cyclesStarted' = cyclesStarted + 1
                /\ rawData' = <<>> /\ transformedData' = NoData /\ trace' = <<>>
                /\ outcome' = "running"
                /\ <<db, fs, metrics>>' = <<db, fs, metrics>>
                /\ pre' = [db |-> db, fs |-> fs, metrics |-> metrics]]_vars

C22_Witness ==
    /\ cyclesStarted = 2 /\ outcome = "completed"
    /\ pre.metrics.DatabaseWritesTotal = 1 /\ pre.metrics.DatabaseWriteErrorsTotal = 1
    /\ pre.db.raw_data = <<>> /\ db.raw_data # <<>>
    /\ ~ctxDone

\* C23: startup and exit: when NewPostgresDB (connection or schema
\* initialization) fails the process exits non-zero with the HTTP server not
\* started and no cycle run, so a cycle writes only after the schema has
\* been initialized; otherwise the process ends only after a termination
\* signal, and then by main returning (exit status zero) with the HTTP
\* server shut down.
C23_StartupAndExit ==
    /\ mainPc = "fatal" =>
            srv = "unset" /\ pc = "notStarted" /\ cyclesStarted = 0 /\ db = pre.db /\ fs = pre.fs
    /\ (cyclesStarted > 0 \/ srv # "unset") => mainPc \notin {"init", "fatal"}
    /\ mainPc \notin {"init", "fatal", "waitSignal", "shutdown"} =>
            mainPc = "exited" /\ ctxDone /\ srv = "closed"

\* C24: /health and /ready answer 200 exactly when the store answered the
\* ping made for that request and 503 otherwise, whatever the pipeline's
\* cycles have done.
C24_HealthMirrorsStore ==
    response.path # "none" =>
        /\ response.status \in {StatusOK, StatusServiceUnavailable}
        /\ response.status = StatusOK <=> response.reachable

C24_Witness ==
    /\ response = [path |-> "/health", reachable |-> FALSE, status |-> StatusServiceUnavailable]
    /\ outcome = "completed"

\* C25: none of the seven counters ever decreases or is reset, in a step of
\* a successful cycle, of an aborted one, or between cycles.
C25_CountersMonotonic ==
    [][\A c \in Counters : metrics'[c] >= metrics[c]]_vars

C25_Witness ==
    /\ cyclesStarted = 2 /\ outcome = "completed"
    /\ pre.metrics.APIRequestsFailedTotal = 1 /\ metrics.APIRequestsFailedTotal = 1
    /\ metrics.APIRequestsTotal = 2 /\ metrics.DataSavedTotal = 2
    /\ metrics.RecordsProcessedTotal >= 1

Successor(stage) ==
    LET i == CHOOSE j \in 1..Len(Stages) : Stages[j] = stage
    IN  IF i = Len(Stages) THEN "select" ELSE Stages[i + 1]

Aborts == outcome # "aborted" /\ outcome' = "aborted"

C28_StageOrder ==
    /\ Len(trace) <= Len(Stages)
    /\ \A i \in 1..Len(trace) : trace[i].stage = Stages[i]
    /\ pc \in StageSet => (Len(trace) < Len(Stages) /\ pc = Stages[Len(trace) + 1])
    /\ outcome = "completed" => Len(trace) = Len(Stages)
    /\ outcome = "aborted" => (Len(trace) >= 1 /\ trace[Len(trace)].err # Nil)

C28_Witness ==
    /\ outcome = "completed" /\ Len(trace) = 6
    /\ trace[3].err # Nil /\ trace[6].err # Nil
    /\ metrics.DataSavedTotal = 0 /\ metrics.DatabaseWritesTotal = 2

\* C29: every FetchData call counts one attempt and records exactly one
\* latency observation, on success and on every kind of failure, the
\* network error included; it counts one failure when it fails and none
\* when it succeeds.
C29_FetcherMetrics ==
    Len(trace) >= 1 =>
        /\ metrics.APIRequestsTotal = pre.metrics.APIRequestsTotal + 1
        /\ metrics.APIRequestDuration = pre.metrics.APIRequestDuration + 1
        /\ metrics.APIRequestsFailedTotal
             = pre.metrics.APIRequestsFailedTotal + (IF trace[1].err # Nil THEN 1 ELSE 0)

TicksElapsed == now

C32_ShutdownOnInitializedServer ==
    /\ mainPc # "panicked"
    /\ mainPc = "exited" => srv = "closed"

\* The table after holds the rows of the table before, unchanged and in
\* place, followed by any new ones.
Extends(before, after) ==
    Len(before) <= Len(after) /\ SubSeq(after, 1, Len(before)) = before

\* C33: the two inserts of a cycle are separate transactions and nothing
\* deletes or updates a row: every step leaves the rows of both tables in
\* place (the tables only grow, within a cycle and from cycle to cycle),
\* the stages after the raw insert do not touch the raw table, and when the
\* insert of the processed records fails the raw rows committed earlier in
\* the cycle are still there while the processed table is as the cycle
\* found it.
C33_NoCrossStageRollback ==
    /\ [][Extends(db.raw_data, db'.raw_data)
            /\ Extends(db.processed_data, db'.processed_data)]_vars
    /\ [][(pc \in StageSet \ {"Fetching", "PersistingRaw"}) => db'.raw_data = db.raw_data]_vars
    /\ []((Len(trace) >= 5 /\ trace[5].err # Nil) =>
            /\ db.raw_data = pre.db.raw_data \o MarshalAll(rawData)
            /\ db.processed_data = pre.db.processed_data)

C33_Witness ==
    /\ outcome = "aborted" /\ Len(trace) = 5 /\ trace[5].err # Nil
    /\ rawData # <<>> /\ transformedData.Records # <<>>
    /\ pre.db.raw_data # <<>> /\ pre.db.processed_data # <<>>
    /\ Len(db.raw_data) = Len(pre.db.raw_data) + Len(rawData)

\* The chunks a directory has gained since the cycle started.
NewChunks(dir, before) ==
    UNION {{dir[name][i] :
                i \in ((IF name \in DOMAIN before THEN Len(before[name]) ELSE 0) + 1)
                        ..Len(dir[name])} :
           name \in DOMAIN dir}

\* The Records of a processed file as rows of the processed table.
RowsOfFile(text) ==
    [i \in 1..Len(text.records.items) |->
        [UserID |-> text.records.items[i].user_id,
         Title |-> text.records.items[i].title,
         Body |-> text.records.items[i].body]]

\* C34: one batch per cycle, unmutated: from the end of the fetch to the end
\* of the cycle the fetched sequence does not change; the rows the raw
\* table gains, the text the raw file gains and the input from which the
\* normalized data were computed are that one sequence; and the rows the
\* processed table gains are the Records of the object the processed file
\* gains.
C34_OneBatchUnmutated ==
    /\ [][(pc \in StageSet \ {"Fetching"}) => rawData' = rawData]_vars
    /\ []((Len(trace) >= 2 /\ trace[2].err = Nil) =>
            NewRows(db.raw_data, pre.db.raw_data) = MarshalAll(rawData))
    /\ []((Len(trace) >= 3 /\ trace[3].err = Nil) =>
            NewChunks(fs.raw, pre.fs.raw) = {[text |-> MarshalAll(rawData), complete |-> TRUE]})
    /\ [](Len(trace) >= 4 =>
            \E conv \in Conversions, t \in 0..now :
                transformedData = Transform(rawData, t, conv).data)
    /\ []((Len(trace) = 6 /\ trace[5].err = Nil /\ trace[6].err = Nil) =>
            \E chunk \in NewChunks(fs.processed, pre.fs.processed) :
                /\ NewChunks(fs.processed, pre.fs.processed) = {chunk}
                /\ chunk.complete
                /\ RowsOfFile(chunk.text) = NewRows(db.processed_data, pre.db.processed_data)
                /\ RowsOfFile(chunk.text) = transformedData.Records)

C34_Witness ==
    /\ outcome = "completed" /\ Len(trace) = 6
    /\ \A i \in 1..6 : trace[i].err = Nil
    /\ rawData = <<RecNoUser, RecGood>>
    /\ Len(transformedData.Records) = 1
    /\ pre.db.raw_data # <<>> /\ pre.fs.raw # <<>>

\* The stages of the cycle, among the given ones, that finished without an
\* error.
Successes(stages) ==
    Cardinality({i \in 1..Len(trace) : trace[i].stage \in stages /\ trace[i].err = Nil})

\* C35: in every reachable state the failed requests do not exceed the
\* requests, the database write errors do not exceed the database writes,
\* and the database writes do not exceed twice the requests; within a cycle
\* the database writes have grown by the persists attempted so far (0, 1 or
\* 2) and the saves by the file writes that succeeded so far (at most 2),
\* a failed file write adding nothing.
C35_CounterRelations ==
    /\ metrics.APIRequestsFailedTotal <= metrics.APIRequestsTotal
    /\ metrics.DatabaseWriteErrorsTotal <= metrics.DatabaseWritesTotal
    /\ metrics.DatabaseWritesTotal <= 2 * metrics.APIRequestsTotal
    /\ metrics.DatabaseWritesTotal - pre.metrics.DatabaseWritesTotal \in 0..2
    /\ metrics.DatabaseWritesTotal - pre.metrics.DatabaseWritesTotal
         = Attempts({"PersistingRaw", "PersistingNormalized"})
    /\ metrics.DataSavedTotal - pre.metrics.DataSavedTotal \in 0..2
    /\ metrics.DataSavedTotal - pre.metrics.DataSavedTotal
         = Successes({"WritingRawFile", "WritingNormalizedFile"})

C35_Witness ==
    /\ cyclesStarted = 2 /\ outcome = "completed"
    /\ metrics.APIRequestsTotal = 2 /\ metrics.APIRequestsFailedTotal = 1
    /\ metrics.DatabaseWritesTotal = 2 /\ metrics.DatabaseWriteErrorsTotal = 0
    /\ trace[3].err # Nil /\ trace[6].err = Nil
    /\ metrics.DataSavedTotal = 1

\* FETCH_INTERVAL holds an integer: an optional sign and decimal digits,
\* within the range of int.
IsInteger(variable) == Atoi(variable.value).err = Nil

\* C36: for every value of FETCH_INTERVAL the interval main gives to Start
\* is strictly positive, so that NewTicker does not panic and the first
\* cycle runs; a value that is not an integer, and no value, give the
\* default of 30 seconds.
C36_IntervalStrictlyPositive ==
    /\ config.loaded => Positive64(Interval(config.FetchInterval))
    /\ (config.loaded /\ ~IsInteger(env)) =>
            config.FetchInterval = Word(DefaultFetchInterval)
    /\ mainPc # "panicked"
    /\ pc = "start" => ENABLED StartFirst

\* C37: every call of NewMetrics in a process succeeds, the second and
\* later ones included: no test of the plan ends in a panic of NewMetrics,
\* and every test that has got past its first statements has its counters
\* registered.
C37_NewMetricsRepeatable ==
    /\ tests.at # "panicked"
    /\ tests.at = "body" => \A i \in 1..Len(MetricNames) : MetricNames[i] \in registry
    /\ (tests.at = "idle" /\ tests.started < Len(tests.plan)) =>
            ~RegisterAll(registry, MetricNames).panic

====
